---- MODULE Spec2Model ----
(***************************************************************************)
(* Light-curve ingestion and characterization pipeline of ExoVision:       *)
(* the data parser (utils/dataParser), the scorer singleton                *)
(* (services/mlModelService), the upload orchestrator                      *)
(* (components/DataUploadInterface), the physics calculator                *)
(* (services/physicsCalculationService) and the catalog-record mapping of  *)
(* services/enhancedExoplanetService.                                      *)
(*                                                                         *)
(* Text is held as a sequence of one-character strings, so that split,     *)
(* trim, includes and parseFloat are computed as the code computes them.   *)
(* A number is a record [k, v]: k = "fin" with v the value in hundredths,  *)
(* k = "nan" for NaN, k = "inf" with v = 1 or -1 for +/- Infinity.         *)
(***************************************************************************)
EXTENDS Integers, Sequences, FiniteSets, TLC

VARIABLES
  fn, arg, ret,            \* pure-function harness: the function applied, its input, its result
  uploadStatus,            \* useState 'idle' | 'uploading' | 'processing' | 'complete' | 'error'
  uploadProgress,          \* useState number
  analysisProgress,        \* useState number
  uploadedFiles,           \* useState File[]
  error,                   \* useState string | null
  modelPrediction,         \* useState ModelPrediction | null
  uploadInterval,          \* the setInterval of handleFileUpload: active, and the files it captured
  analysisInterval,        \* the setInterval of startAnalysis: active, and its currentStep
  pc,                      \* where the in-flight startAnalysis (and the predict it awaits) is suspended
  req,                     \* the locals of the in-flight startAnalysis and predict
  isModelLoaded,           \* MLModelService.isModelLoaded
  loadingPromise,          \* MLModelService.loadingPromise: 0 for null, else the promise's number
  model,                   \* MLModelService.model: "undefined" | "loaded"
  pendingLoads,            \* the _loadModel executions in flight, by the number of their promise
  loadCount,               \* _loadModel executions started so far
  published,               \* the predictions handed to onAnalysisComplete for the current upload
  stages,                  \* the pipeline stages run for the current upload, in order
  startCount,              \* startAnalysis invocations for the current upload
  predictCount,            \* mlModelService.predict invocations for the current upload
  uploads,                 \* accepted uploads so far
  calls,                   \* the validateWithML calls in flight: the locals of each and of its predict
  access,                  \* for each field, the calls that have read it and that have written it
  currentPrediction,       \* MLAnalysis: useState ModelPrediction | null
  analysisHistory,         \* MLAnalysis: useState ModelPrediction[]
  completed                \* the predictions of the analyses completed so far, oldest first

vars == <<fn, arg, ret, uploadStatus, uploadProgress, analysisProgress, uploadedFiles,
          error, modelPrediction, uploadInterval, analysisInterval, pc, req,
          isModelLoaded, loadingPromise, model, pendingLoads, loadCount, published, stages,
          startCount, predictCount, uploads, calls, access,
          currentPrediction, analysisHistory, completed>>

-----------------------------------------------------------------------------
(* Numbers *)

Fin(n) == [k |-> "fin", v |-> n]
NaN == [k |-> "nan", v |-> 0]
Inf(s) == [k |-> "inf", v |-> s]
isNaN(x) == x.k = "nan"
IsFinite(x) == x.k = "fin"

-----------------------------------------------------------------------------
(* Strings *)

WhiteSpace == {" ", "\n", "\t", "\r"}

RECURSIVE TrimLeft(_)
TrimLeft(s) == IF s # <<>> /\ Head(s) \in WhiteSpace THEN TrimLeft(Tail(s)) ELSE s

RECURSIVE TrimRight(_)
TrimRight(s) ==
  IF s # <<>> /\ s[Len(s)] \in WhiteSpace THEN TrimRight(SubSeq(s, 1, Len(s) - 1)) ELSE s

\* String.prototype.trim
Trim(s) == TrimRight(TrimLeft(s))

\* String.prototype.split with a one-character separator
RECURSIVE Split(_, _)
Split(s, sep) ==
  IF \A i \in 1..Len(s) : s[i] # sep
    THEN <<s>>
    ELSE LET i == CHOOSE i \in 1..Len(s) : s[i] = sep /\ \A j \in 1..(i - 1) : s[j] # sep
         IN  <<SubSeq(s, 1, i - 1)>> \o Split(SubSeq(s, i + 1, Len(s)), sep)

\* String.prototype.split(/\s+/) of a trimmed, non-empty string
RECURSIVE SplitWhiteSpace(_)
SplitWhiteSpace(s) ==
  IF \A i \in 1..Len(s) : s[i] \notin WhiteSpace
    THEN <<s>>
    ELSE LET i == CHOOSE i \in 1..Len(s) :
                    s[i] \in WhiteSpace /\ \A j \in 1..(i - 1) : s[j] \notin WhiteSpace
         IN  <<SubSeq(s, 1, i - 1)>> \o SplitWhiteSpace(TrimLeft(SubSeq(s, i, Len(s))))

UpperChars == <<"A","B","C","D","E","F","G","H","I","J","K","L","M",
                "N","O","P","Q","R","S","T","U","V","W","X","Y","Z">>
LowerChars == <<"a","b","c","d","e","f","g","h","i","j","k","l","m",
                "n","o","p","q","r","s","t","u","v","w","x","y","z">>

\* String.prototype.toLowerCase
ToLower(s) ==
  [i \in 1..Len(s) |->
     IF \E j \in 1..Len(UpperChars) : UpperChars[j] = s[i]
       THEN LowerChars[CHOOSE j \in 1..Len(UpperChars) : UpperChars[j] = s[i]]
       ELSE s[i]]

\* String.prototype.includes
Includes(s, sub) ==
  \E i \in 1..(Len(s) - Len(sub) + 1) : SubSeq(s, i, i + Len(sub) - 1) = sub

\* String.prototype.startsWith
StartsWith(s, pre) == Len(s) >= Len(pre) /\ SubSeq(s, 1, Len(pre)) = pre

\* Array.prototype.join
RECURSIVE Join(_, _)
Join(parts, sep) ==
  IF parts = <<>> THEN <<>>
  ELSE IF Len(parts) = 1 THEN parts[1]
  ELSE parts[1] \o sep \o Join(Tail(parts), sep)

DigitChars == <<"0","1","2","3","4","5","6","7","8","9">>
IsDigit(c) == \E i \in 1..Len(DigitChars) : DigitChars[i] = c
DigitVal(c) == (CHOOSE i \in 1..Len(DigitChars) : DigitChars[i] = c) - 1

RECURSIVE DigitRun(_)
DigitRun(s) ==
  IF s # <<>> /\ IsDigit(Head(s)) THEN <<Head(s)>> \o DigitRun(Tail(s)) ELSE <<>>

RECURSIVE DigitsValue(_)
DigitsValue(ds) ==
  IF ds = <<>> THEN 0
  ELSE DigitsValue(SubSeq(ds, 1, Len(ds) - 1)) * 10 + DigitVal(ds[Len(ds)])

\* parseFloat: leading white space, an optional sign, digits, an optional fraction;
\* whatever follows is ignored; NaN when there is no digit. The value is held in
\* hundredths (the inputs of the model carry at most two decimals and no exponent).
parseFloat(str) ==
  LET s      == TrimLeft(str)
      signed == s # <<>> /\ Head(s) \in {"-", "+"}
      neg    == s # <<>> /\ Head(s) = "-"
      u      == IF signed THEN Tail(s) ELSE s
      ip     == DigitRun(u)
      r      == SubSeq(u, Len(ip) + 1, Len(u))
      fp     == IF r # <<>> /\ Head(r) = "." THEN DigitRun(Tail(r)) ELSE <<>>
      f2     == SubSeq(fp \o <<"0", "0">>, 1, 2)
      mag    == DigitsValue(ip) * 100 + DigitsValue(f2)
  IN  IF ip = <<>> /\ fp = <<>> THEN NaN ELSE Fin(IF neg THEN 0 - mag ELSE mag)

\* Array.prototype.findIndex: 0-based, -1 when no element satisfies P
FindIndex(xs, P(_)) ==
  IF \E i \in 1..Len(xs) : P(xs[i])
    THEN (CHOOSE i \in 1..Len(xs) : P(xs[i]) /\ \A j \in 1..(i - 1) : ~P(xs[j])) - 1
    ELSE 0 - 1

Max2(a, b) == IF a >= b THEN a ELSE b
Min2(a, b) == IF a <= b THEN a ELSE b

-----------------------------------------------------------------------------
(* utils/dataParser *)

\* an optional field: undefined, or a value
Undefined == [defined |-> FALSE, val |-> <<>>]
Defined(x) == [defined |-> TRUE, val |-> x]

\* a returned light curve, or the exception thrown instead
Returned(lc) == [threw |-> FALSE, lc |-> lc]
Thrown == [threw |-> TRUE,
           lc |-> [time |-> <<>>, flux |-> <<>>, error |-> Undefined,
                   metadata |-> [source |-> "unknown", targetId |-> Undefined]]]

detectDataSource(headers) ==
  LET headerStr == ToLower(Join(headers, <<" ">>))
  IN  IF Includes(headerStr, <<"k","e","p","l","e","r">>) \/ Includes(headerStr, <<"k","i","c">>) THEN "kepler"
      ELSE IF Includes(headerStr, <<"k","2">>) \/ Includes(headerStr, <<"e","p","i","c">>) THEN "k2"
      ELSE IF Includes(headerStr, <<"t","e","s","s">>) \/ Includes(headerStr, <<"t","i","c">>) THEN "tess"
      ELSE "unknown"

\* the match of /(?:kic|epic|tic)[\s]*(\d+)/i that starts at position i: its group 1,
\* or <<>> when there is no match at i
IdMatchAt(content, i) ==
  LET rest   == ToLower(SubSeq(content, i, Len(content)))
      prefix == IF StartsWith(rest, <<"k","i","c">>) THEN 3
                ELSE IF StartsWith(rest, <<"e","p","i","c">>) THEN 4
                ELSE IF StartsWith(rest, <<"t","i","c">>) THEN 3
                ELSE 0
  IN  IF prefix = 0 THEN <<>>
      ELSE DigitRun(TrimLeft(SubSeq(rest, prefix + 1, Len(rest))))

extractTargetId(content) ==
  IF \E i \in 1..Len(content) : IdMatchAt(content, i) # <<>>
    THEN Defined(IdMatchAt(content,
           CHOOSE i \in 1..Len(content) :
             IdMatchAt(content, i) # <<>> /\ \A j \in 1..(i - 1) : IdMatchAt(content, j) = <<>>))
    ELSE Undefined

\* the mock generators run duration / cadence = 50000 iterations; the model keeps the
\* first MockLen samples of each series
MockLen == 3
MockStartTime == 2454833
MockDuration == 1000
MockPeriod == 365
\* cadence 0.02, in hundredths
MockCadence == 2
MockPoints == Min2((MockDuration * 100) \div MockCadence, MockLen)

generateMockTimeSeries ==
  [i \in 1..MockPoints |-> Fin(MockStartTime * 100 + (i - 1) * MockCadence)]

\* baseFlux 1.0 less transitDepth 0.01 while phase < 0.1; the noise
\* (Math.random() - 0.5) * 0.001 is below a hundredth
generateMockFluxSeries ==
  [i \in 1..MockPoints |->
     LET time      == (i - 1) * MockCadence
         inTransit == (time % (MockPeriod * 100)) * 10 < MockPeriod * 100
     IN  Fin(IF inTransit THEN 100 - 1 ELSE 100)]

\* Math.random() * 0.0005 + 0.0001 is below a hundredth
generateMockErrorSeries == [i \in 1..MockPoints |-> Fin(0)]

\* a placeholder that carries no target id
generateUnlabelledLightCurve ==
  [time |-> generateMockTimeSeries, flux |-> generateMockFluxSeries,
   error |-> Defined(generateMockErrorSeries),
   metadata |-> [source |-> "kepler", targetId |-> Undefined]]

generateMockLightCurve ==
  [time |-> generateMockTimeSeries, flux |-> generateMockFluxSeries,
   error |-> Defined(generateMockErrorSeries),
   metadata |-> [source |-> "kepler", targetId |-> Defined(<<"m","o","c","k","_","t","a","r","g","e","t">>)]]

parseFITSData(fitsContent) ==
  Returned([time |-> generateMockTimeSeries, flux |-> generateMockFluxSeries,
            error |-> Defined(generateMockErrorSeries),
            metadata |-> [source |-> "kepler", targetId |-> Defined(<<"m","o","c","k","_","t","a","r","g","e","t">>)]])

TrimAll(vs) == [j \in 1..Len(vs) |-> Trim(vs[j])]

\* the row loop of parseCSVDataWithIndices, from line i on
RECURSIVE IndexedRows(_, _, _, _, _, _)
IndexedRows(lines, i, timeIndex, fluxIndex, errorIndex, acc) ==
  IF i > Len(lines) THEN acc
  ELSE
    LET line    == Trim(lines[i])
        values  == TrimAll(Split(line, ","))
        timeVal == parseFloat(values[timeIndex + 1])
        fluxVal == parseFloat(values[fluxIndex + 1])
        errorVal == parseFloat(values[errorIndex + 1])
    IN  IF line = <<>> \/ StartsWith(line, <<"#">>) \/ StartsWith(line, <<"%">>)
          THEN IndexedRows(lines, i + 1, timeIndex, fluxIndex, errorIndex, acc)
        ELSE IF Len(values) <= Max2(timeIndex, fluxIndex)
          THEN IndexedRows(lines, i + 1, timeIndex, fluxIndex, errorIndex, acc)
        ELSE IF ~isNaN(timeVal) /\ ~isNaN(fluxVal)
          THEN IndexedRows(lines, i + 1, timeIndex, fluxIndex, errorIndex,
                 [time  |-> Append(acc.time, timeVal),
                  flux  |-> Append(acc.flux, fluxVal),
                  error |-> IF errorIndex # 0 - 1 /\ errorIndex < Len(values)
                              THEN Append(acc.error, IF isNaN(errorVal) THEN Fin(0) ELSE errorVal)
                              ELSE acc.error])
        ELSE IndexedRows(lines, i + 1, timeIndex, fluxIndex, errorIndex, acc)

NoRows == [time |-> <<>>, flux |-> <<>>, error |-> <<>>]

parseCSVDataWithIndices(csvContent, timeIndex, fluxIndex, errorIndex) ==
  LET lines   == Split(Trim(csvContent), "\n")
      headers == LET hs == Split(lines[1], ",") IN [j \in 1..Len(hs) |-> ToLower(Trim(hs[j]))]
      rows    == IndexedRows(lines, 2, timeIndex, fluxIndex, errorIndex, NoRows)
  IN  IF Len(rows.time) = 0
        THEN Returned(generateMockLightCurve)
        ELSE Returned([time |-> rows.time, flux |-> rows.flux,
                       error |-> IF Len(rows.error) > 0 THEN Defined(rows.error) ELSE Undefined,
                       metadata |-> [source |-> detectDataSource(headers),
                                     targetId |-> extractTargetId(csvContent)]])

\* the column searches of parseKeplerKOIData
KOITimeHeader(header) ==
  \/ Includes(header, <<"t","i","m","e">>) \/ Includes(header, <<"b","j","d">>) \/ Includes(header, <<"j","d">>)
  \/ Includes(header, <<"d","a","t","e">>) \/ Includes(header, <<"t","_","o","b","s">>) \/ Includes(header, <<"t","i","m","e","s","t","a","m","p">>)

KOIFluxHeader(header) ==
  \/ Includes(header, <<"f","l","u","x">>) \/ Includes(header, <<"b","r","i","g","h","t","n","e","s","s">>)
  \/ Includes(header, <<"r","e","l","a","t","i","v","e","_","f","l","u","x">>) \/ Includes(header, <<"n","o","r","m","a","l","i","z","e","d","_","f","l","u","x">>)

KOIErrorHeader(header) ==
  \/ Includes(header, <<"e","r","r","o","r">>) \/ Includes(header, <<"e","r","r">>)
  \/ Includes(header, <<"s","i","g","m","a">>) \/ Includes(header, <<"u","n","c","e","r","t","a","i","n","t","y">>)

\* the row loop of parseKeplerKOIData, from line i on
RECURSIVE KOIRows(_, _, _, _, _, _)
KOIRows(lines, i, timeIndex, fluxIndex, errorIndex, acc) ==
  IF i > Len(lines) THEN acc
  ELSE
    LET line    == Trim(lines[i])
        values  == TrimAll(Split(line, ","))
        timeVal == parseFloat(values[timeIndex + 1])
        fluxVal == parseFloat(values[fluxIndex + 1])
        errorVal == parseFloat(values[errorIndex + 1])
    IN  IF line = <<>> \/ StartsWith(line, <<"#">>) \/ StartsWith(line, <<"%">>)
          THEN KOIRows(lines, i + 1, timeIndex, fluxIndex, errorIndex, acc)
        ELSE IF Len(values) <= Max2(timeIndex, fluxIndex)
          THEN KOIRows(lines, i + 1, timeIndex, fluxIndex, errorIndex, acc)
        ELSE IF ~isNaN(timeVal) /\ ~isNaN(fluxVal)
          THEN KOIRows(lines, i + 1, timeIndex, fluxIndex, errorIndex,
                 [time  |-> Append(acc.time, timeVal),
                  flux  |-> Append(acc.flux, fluxVal),
                  error |-> IF errorIndex # 0 - 1 /\ errorIndex < Len(values)
                              THEN Append(acc.error, IF isNaN(errorVal) THEN Fin(0) ELSE errorVal)
                              ELSE acc.error])
        ELSE KOIRows(lines, i + 1, timeIndex, fluxIndex, errorIndex, acc)

parseKeplerKOIData(csvContent, headers) ==
  LET lines      == Split(Trim(csvContent), "\n")
      foundTime  == FindIndex(headers, KOITimeHeader)
      foundFlux  == FindIndex(headers, KOIFluxHeader)
      errorIndex == FindIndex(headers, KOIErrorHeader)
      timeIndex  == IF foundTime = 0 - 1 THEN 0 ELSE foundTime
      fluxIndex  == IF foundFlux = 0 - 1 THEN 1 ELSE foundFlux
      rows       == KOIRows(lines, 2, timeIndex, fluxIndex, errorIndex, NoRows)
  IN  Returned([time |-> rows.time, flux |-> rows.flux,
                error |-> IF Len(rows.error) > 0 THEN Defined(rows.error) ELSE Undefined,
                metadata |-> [source |-> "kepler", targetId |-> extractTargetId(csvContent)]])

\* the column searches of parseCSVData
CSVTimeHeader(h) ==
  \/ Includes(h, <<"t","i","m","e">>) \/ Includes(h, <<"b","j","d">>) \/ Includes(h, <<"j","d">>)
  \/ Includes(h, <<"d","a","t","e">>) \/ Includes(h, <<"t">>) \/ h = <<"x">> \/ h = <<"0">>
  \/ Includes(h, <<"t","_","o","b","s">>) \/ Includes(h, <<"t","i","m","e","s","t","a","m","p">>)

CSVFluxHeader(h) ==
  \/ Includes(h, <<"f","l","u","x">>) \/ Includes(h, <<"p","d","c","s","a","p","_","f","l","u","x">>) \/ Includes(h, <<"s","a","p","_","f","l","u","x">>)
  \/ Includes(h, <<"b","r","i","g","h","t","n","e","s","s">>) \/ Includes(h, <<"m","a","g","n","i","t","u","d","e">>) \/ h = <<"y">> \/ h = <<"1">>
  \/ Includes(h, <<"r","e","l","a","t","i","v","e","_","f","l","u","x">>) \/ Includes(h, <<"n","o","r","m","a","l","i","z","e","d","_","f","l","u","x">>)

CSVErrorHeader(h) ==
  \/ Includes(h, <<"e","r","r","o","r">>) \/ Includes(h, <<"f","l","u","x","_","e","r","r">>) \/ Includes(h, <<"e","r","r">>)
  \/ Includes(h, <<"s","i","g","m","a">>) \/ Includes(h, <<"u","n","c","e","r","t","a","i","n","t","y">>) \/ Includes(h, <<"f","l","u","x","_","e","r","r","o","r">>)

\* more than this many header tokens select the multi-column path
WideColumns == 5

parseCSVData(csvContent) ==
  LET lines      == Split(Trim(csvContent), "\n")
      headers    == LET hs == Split(lines[1], ",") IN [j \in 1..Len(hs) |-> ToLower(Trim(hs[j]))]
      timeIndex  == FindIndex(headers, CSVTimeHeader)
      fluxIndex  == FindIndex(headers, CSVFluxHeader)
      errorIndex == FindIndex(headers, CSVErrorHeader)
  IN  IF Len(headers) > WideColumns
        THEN parseKeplerKOIData(csvContent, headers)
      ELSE IF timeIndex = 0 - 1 \/ fluxIndex = 0 - 1
        THEN IF Len(headers) >= 2
               THEN parseCSVDataWithIndices(csvContent, 0, 1, 2)
               ELSE Thrown
      ELSE parseCSVDataWithIndices(csvContent, timeIndex, fluxIndex, errorIndex)

\* the line loop of parseTextData, from line i on
RECURSIVE TextRows(_, _, _)
TextRows(dataLines, i, acc) ==
  IF i > Len(dataLines) THEN acc
  ELSE
    LET values   == SplitWhiteSpace(Trim(dataLines[i]))
        timeVal  == parseFloat(values[1])
        fluxVal  == parseFloat(values[2])
        errorVal == parseFloat(values[3])
    IN  IF Len(values) >= 2 /\ ~isNaN(timeVal) /\ ~isNaN(fluxVal)
          THEN TextRows(dataLines, i + 1,
                        [time  |-> Append(acc.time, timeVal),
                         flux  |-> Append(acc.flux, fluxVal),
                         error |-> IF Len(values) >= 3
                                     THEN Append(acc.error, IF isNaN(errorVal) THEN Fin(0) ELSE errorVal)
                                     ELSE acc.error])
          ELSE TextRows(dataLines, i + 1, acc)

parseTextData(textContent) ==
  LET lines     == Split(Trim(textContent), "\n")
      dataLines == SelectSeq(lines, LAMBDA line :
                     Trim(line) # <<>> /\ ~StartsWith(line, <<"#">>) /\ ~StartsWith(line, <<"%">>))
      rows      == TextRows(dataLines, 1, NoRows)
  IN  Returned([time |-> rows.time, flux |-> rows.flux,
                error |-> IF Len(rows.error) > 0 THEN Defined(rows.error) ELSE Undefined,
                metadata |-> [source |-> "unknown", targetId |-> Undefined]])

-----------------------------------------------------------------------------
(* Inputs *)

NL == <<"\n">>

\* first lines: CSV headers of the strict path, of the multi-column path, and a
\* headerless first line of white-space text; then headers without a recognised
\* column, with the columns out of order, with a target id, with two time columns
\* and with two mission names; and a header that follows a comment line
FirstLines ==
  { <<"t","i","m","e",",","f","l","u","x">>, <<"t","i","m","e",",","f","l","u","x",",","f","l","u","x","_","e","r","r">>, <<"a",",","b">>, <<"a","b","c">>, <<>>,
    <<"K","I","C",",","T","I","M","E",",","P","D","C","S","A","P","_","F","L","U","X",",","F","L","U","X","_","E","R","R">>,
    <<"t","i","m","e",",","f","l","u","x",",","f","l","u","x","_","e","r","r",",","r","a",",","d","e","c",",","k","o","i">>, <<"a",",","b",",","c",",","d",",","e",",","g">>, <<"1"," ","2">>,
    <<"a",",","b",",","c">>,
    <<"f","l","u","x","_","e","r","r",",","t","i","m","e">>,
    <<"t","i","m","e",",","f","l","u","x",",","k","i","c","1">>,
    <<"d","a","t","e",",","t","i","m","e",",","f","l","u","x">>,
    <<"t","e","s","s",",","f","l","u","x",",","k","2">>,
    <<"#","c","\n","t","i","m","e",",","f","l","u","x">> }

\* following lines: rows without and with the error column, an unparseable row,
\* an empty line, a comment, white-space rows
BodyLines ==
  { <<"1",",","0">>, <<"2",",","3",",","0",".","5">>, <<"x",",","y">>, <<>>, <<"#","c">>, <<"3"," ","0">>, <<"4"," ","5"," ","0",".","1">> }

MaxRows == 2

RECURSIVE Bodies(_)
Bodies(n) ==
  IF n = 0 THEN { <<>> }
  ELSE Bodies(n - 1) \cup { Append(b, l) : b \in { x \in Bodies(n - 1) : Len(x) = n - 1 }, l \in BodyLines }

Contents == { Join(<<h>> \o b, NL) : h \in FirstLines, b \in Bodies(MaxRows) }

-----------------------------------------------------------------------------
(* Arithmetic of numbers held in hundredths, with NaN and the infinities *)

Sign(n) == IF n > 0 THEN 1 ELSE IF n < 0 THEN 0 - 1 ELSE 0
AbsInt(n) == IF n < 0 THEN 0 - n ELSE n

\* n / d rounded to the nearest integer, d > 0
RoundDiv(n, d) == (2 * n + d) \div (2 * d)

\* the integer square root of n by bisection: lo * lo <= n < hi * hi
RECURSIVE IntSqrtIn(_, _, _)
IntSqrtIn(n, lo, hi) ==
  IF hi - lo <= 1 THEN lo
  ELSE LET mid == (lo + hi) \div 2
       IN  IF mid * mid <= n THEN IntSqrtIn(n, mid, hi) ELSE IntSqrtIn(n, lo, mid)

IntSqrt(n) == IntSqrtIn(n, 0, IF n < 46340 THEN n + 1 ELSE 46341)

NAdd(a, b) ==
  IF isNaN(a) \/ isNaN(b) THEN NaN
  ELSE IF a.k = "inf" /\ b.k = "inf" THEN (IF a.v = b.v THEN a ELSE NaN)
  ELSE IF a.k = "inf" THEN a
  ELSE IF b.k = "inf" THEN b
  ELSE Fin(a.v + b.v)

NNeg(a) == IF isNaN(a) THEN NaN ELSE [k |-> a.k, v |-> 0 - a.v]

NSub(a, b) == NAdd(a, NNeg(b))

NMul(a, b) ==
  IF isNaN(a) \/ isNaN(b) THEN NaN
  ELSE IF a.k = "inf" \/ b.k = "inf"
    THEN (IF Sign(a.v) * Sign(b.v) = 0 THEN NaN ELSE Inf(Sign(a.v) * Sign(b.v)))
  ELSE Fin(RoundDiv(a.v * b.v, 100))

NDiv(a, b) ==
  IF isNaN(a) \/ isNaN(b) THEN NaN
  ELSE IF a.k = "inf" THEN (IF b.k = "inf" THEN NaN ELSE Inf(IF b.v < 0 THEN 0 - a.v ELSE a.v))
  ELSE IF b.k = "inf" THEN Fin(0)
  ELSE IF b.v = 0 THEN (IF a.v = 0 THEN NaN ELSE Inf(Sign(a.v)))
  ELSE IF b.v < 0 THEN Fin(RoundDiv((0 - a.v) * 100, 0 - b.v))
  ELSE Fin(RoundDiv(a.v * 100, b.v))

\* a < b; false when either is NaN
NLt(a, b) ==
  IF isNaN(a) \/ isNaN(b) THEN FALSE
  ELSE IF a.k = "inf" THEN a.v < 0 /\ ~(b.k = "inf" /\ b.v < 0)
  ELSE IF b.k = "inf" THEN b.v > 0
  ELSE a.v < b.v

NGt(a, b) == NLt(b, a)

\* Math.min, Math.max of two numbers
NMin(a, b) == IF isNaN(a) \/ isNaN(b) THEN NaN ELSE IF NLt(b, a) THEN b ELSE a
NMax(a, b) == IF isNaN(a) \/ isNaN(b) THEN NaN ELSE IF NLt(a, b) THEN b ELSE a

\* Math.abs, Math.sqrt, Math.round
NAbs(a) == IF isNaN(a) THEN NaN ELSE [k |-> a.k, v |-> AbsInt(a.v)]
NSqrt(a) ==
  IF isNaN(a) THEN NaN
  ELSE IF a.k = "inf" THEN (IF a.v > 0 THEN a ELSE NaN)
  ELSE IF a.v < 0 THEN NaN
  ELSE Fin(IntSqrt(a.v * 100))
NRound(a) == IF IsFinite(a) THEN Fin(((a.v + 50) \div 100) * 100) ELSE a

\* an integer as a number
Num(n) == Fin(n * 100)

\* Array.prototype.reduce((a, b) => a + b, 0)
RECURSIVE Sum(_)
Sum(xs) == IF xs = <<>> THEN Fin(0) ELSE NAdd(Sum(SubSeq(xs, 1, Len(xs) - 1)), xs[Len(xs)])

\* Math.max(...xs), Math.min(...xs)
RECURSIVE MaxOf(_)
MaxOf(xs) == IF xs = <<>> THEN Inf(0 - 1) ELSE NMax(MaxOf(SubSeq(xs, 1, Len(xs) - 1)), xs[Len(xs)])
RECURSIVE MinOf(_)
MinOf(xs) == IF xs = <<>> THEN Inf(1) ELSE NMin(MinOf(SubSeq(xs, 1, Len(xs) - 1)), xs[Len(xs)])

Mean(xs) == NDiv(Sum(xs), Num(Len(xs)))

\* Math.sqrt(xs.map(x => Math.pow(x - mean, 2)).reduce((a, b) => a + b) / xs.length)
StdDev(xs, mean) ==
  NSqrt(NDiv(Sum([i \in 1..Len(xs) |-> NMul(NSub(xs[i], mean), NSub(xs[i], mean))]),
             Num(Len(xs))))

-----------------------------------------------------------------------------
(* services/mlModelService: the pure parts *)

\* padOrTruncate's target length in preprocessLightCurve
FeatureLength == 50

padOrTruncate(arr, targetLength) ==
  IF Len(arr) >= targetLength
    THEN SubSeq(arr, 1, targetLength)
    ELSE arr \o [i \in 1..(targetLength - Len(arr)) |-> Fin(0)]

getFluxFeatures(flux) ==
  LET fluxMean       == Mean(flux)
      fluxStd        == StdDev(flux, fluxMean)
      fluxVariations == [i \in 1..Len(flux) |->
                           IF i > 1 THEN NAbs(NSub(flux[i], flux[i - 1])) ELSE Fin(0)]
      avgVariation   == Mean(fluxVariations)
      outliers       == Cardinality({i \in 1..Len(flux) : NGt(fluxVariations[i], fluxStd)})
  IN  <<fluxMean, fluxStd, avgVariation, MaxOf(fluxVariations),
        NDiv(Num(outliers), Num(Len(flux)))>>

getTimeFeatures(time) ==
  LET timeDiffs   == [i \in 1..Len(time) |-> IF i > 1 THEN NSub(time[i], time[i - 1]) ELSE Fin(0)]
      avgTimeStep == Mean(timeDiffs)
      timeStd     == StdDev(timeDiffs, avgTimeStep)
  IN  <<avgTimeStep, timeStd, MaxOf(timeDiffs), MinOf(timeDiffs), Num(Len(time))>>

getErrorFeatures(errors) ==
  IF Len(errors) = 0 THEN <<Fin(0), Fin(0), Fin(0), Fin(0), Fin(0)>>
  ELSE LET errorMean == Mean(errors)
           errorStd  == StdDev(errors, errorMean)
       IN  <<errorMean, errorStd, MaxOf(errors), MinOf(errors), Num(Len(errors))>>

\* the reduce calls without an initial value (lines 81, 120, 141) throw on an empty array
preprocessLightCurve(data) ==
  IF Len(data.flux) = 0 \/ Len(data.time) = 0
    THEN [threw |-> TRUE, features |-> <<>>]
    ELSE
      LET time      == data.time
          flux      == data.flux
          fluxMean  == Mean(flux)
          fluxStd   == StdDev(flux, fluxMean)
          fluxMin   == MinOf(flux)
          fluxMax   == MaxOf(flux)
          timeRange == NSub(MaxOf(time), MinOf(time))
          features  ==
            <<fluxMean, fluxStd, fluxMin, fluxMax, timeRange, Num(Len(time)),
              NDiv(NSub(fluxMax, fluxMin), NAbs(fluxMean)),
              NDiv(fluxStd, NAbs(fluxMean)),
              NDiv(timeRange, Num(Len(time))),
              MaxOf(time), MinOf(time)>>
            \o getFluxFeatures(flux) \o getTimeFeatures(time)
            \o getErrorFeatures(IF data.error.defined THEN data.error.val ELSE <<>>)
      IN  [threw |-> FALSE, features |-> padOrTruncate(features, FeatureLength)]

analyzeFluxVariations(flux) ==
  LET mean     == Mean(flux)
      variance == NDiv(Sum([i \in 1..Len(flux) |-> NMul(NSub(flux[i], mean), NSub(flux[i], mean))]),
                       Num(Len(flux)))
      stdDev   == NSqrt(variance)
  IN  NMin(NMul(stdDev, Num(10)), Num(1))

analyzePeriodicity(time, flux) ==
  LET timeSpan            == NSub(MaxOf(time), MinOf(time))
      fluxRange           == NSub(MaxOf(flux), MinOf(flux))
      normalizedVariation == NDiv(fluxRange, NAdd(MaxOf(flux), MinOf(flux)))
  IN  NMin(NMul(normalizedVariation, Num(2)), Num(1))

detectTimeGaps(time) ==
  IF Len(time) < 2 THEN Num(1)
  ELSE LET intervals      == [i \in 1..(Len(time) - 1) |-> NSub(time[i + 1], time[i])]
           sorted         == SortSeq(intervals, LAMBDA a, b : NLt(a, b))
           medianInterval == sorted[(Len(intervals) \div 2) + 1]
           largeGaps      == Cardinality({i \in 1..Len(sorted) :
                                NGt(sorted[i], NMul(medianInterval, Num(3)))})
       IN  NDiv(Num(largeGaps), Num(Len(intervals)))

\* the length analyzeDataQuality takes as ideal
IdealLength == 1000

analyzeDataQuality(data) ==
  LET completeness == NDiv(Num(Len(data.flux)), Num(IdealLength))
      timeGaps     == detectTimeGaps(data.time)
      gapQuality   == NMax(Fin(0), NSub(Num(1), timeGaps))
      errorQuality == IF data.error.defined
                        THEN NMax(Fin(0), NSub(Num(1), NMul(Mean(data.error.val), Num(100))))
                        ELSE Num(1)
  IN  NDiv(NAdd(NAdd(completeness, gapQuality), errorQuality), Num(3))

\* random is the value Math.random() returns, in [0, 1)
simulateModelPrediction(features, data, random) ==
  LET fluxVariations  == analyzeFluxVariations(data.flux)
      periodicity     == analyzePeriodicity(data.time, data.flux)
      dataQuality     == analyzeDataQuality(data)
      datasetSize     == Num(Len(data.time))
      timeSpan        == NSub(MaxOf(data.time), MinOf(data.time))
      sizeBonus       == NMin(NDiv(datasetSize, Num(10000)), Fin(20))
      timeBonus       == NMin(NDiv(timeSpan, Num(1000)), Fin(10))
      baseProbability == NAdd(NAdd(NAdd(NAdd(NMul(fluxVariations, Fin(40)),
                                               NMul(periodicity, Fin(30))),
                                          NMul(dataQuality, Fin(30))),
                                    sizeBonus),
                              timeBonus)
      noise           == NMul(NSub(random, Fin(50)), Fin(10))
  IN  NMax(Fin(0), NMin(Num(1), NAdd(baseProbability, noise)))

\* classifyPlanetType with the bound of 'Terrestrial' at 0.6
classifyPlanetTypeFromAtmosphere(probability, data) ==
  IF NGt(probability, Fin(90)) THEN "Super Earth"
  ELSE IF NGt(probability, Fin(60)) THEN "Terrestrial"
  ELSE IF NGt(probability, Fin(50)) THEN "Mini-Neptune"
  ELSE "Gas Giant"

classifyPlanetType(probability, data) ==
  IF NGt(probability, Fin(90)) THEN "Super Earth"
  ELSE IF NGt(probability, Fin(70)) THEN "Terrestrial"
  ELSE IF NGt(probability, Fin(50)) THEN "Mini-Neptune"
  ELSE "Gas Giant"

estimateTemperature(probability, data) == NRound(NAdd(Num(200), NMul(probability, Num(200))))
estimateRadius(probability, data) == NAdd(Fin(50), NMul(probability, Fin(250)))
estimateDistance(probability, data) == NAdd(Fin(2), NMul(probability, Fin(50)))

\* the dataset characteristics predict adds to its result (lines 236-243)
DatasetCharacteristics(data) ==
  LET fluxMean == Mean(data.flux)
  IN  [timePoints |-> Len(data.time), fluxPoints |-> Len(data.flux),
       timeRange |-> NSub(MaxOf(data.time), MinOf(data.time)),
       fluxMean |-> fluxMean, fluxMin |-> MinOf(data.flux), fluxMax |-> MaxOf(data.flux),
       fluxStdDev |-> StdDev(data.flux, fluxMean)]

\* the object predict returns (lines 245-263)
PredictResult(probability, confidence, data) ==
  [probability |-> probability, confidence |-> confidence,
   planetType |-> classifyPlanetType(probability, data),
   isHabitable |-> NGt(probability, Fin(70)),
   hasAtmosphere |-> NGt(probability, Fin(60)),
   hasWater |-> NGt(probability, Fin(80)),
   temperature |-> estimateTemperature(probability, data),
   radius |-> estimateRadius(probability, data),
   distanceFromStar |-> estimateDistance(probability, data),
   characteristics |-> Defined(DatasetCharacteristics(data))]

getMockPrediction(data, random) ==
  LET probability == NAdd(Fin(70), NMul(random, Fin(25)))
  IN  [probability |-> probability, confidence |-> NMul(probability, Fin(90)),
       planetType |-> classifyPlanetType(probability, data),
       isHabitable |-> NGt(probability, Fin(70)),
       hasAtmosphere |-> NGt(probability, Fin(60)),
       hasWater |-> NGt(probability, Fin(80)),
       temperature |-> estimateTemperature(probability, data),
       radius |-> estimateRadius(probability, data),
       distanceFromStar |-> estimateDistance(probability, data),
       characteristics |-> Undefined]

-----------------------------------------------------------------------------
(* Inputs of the upload component *)

\* the values Math.random() is taken to return
RandomValues == { Fin(0), Fin(50), Fin(99) }

\* what the trained model is taken to put in predictionArray[0]
ModelOutputs == { NaN, Fin(0 - 20), Fin(30), Fin(65), Fin(75), Fin(95), Fin(150) }

\* what Math.random() * 20 adds to the upload progress
ProgressIncrements == { 0, 10, 19 }

FileNames == { <<"l","c",".","c","s","v">>, <<"l","c",".","F","I","T","S">>, <<"l","c",".","t","x","t">> }

SampleContents ==
  { Join(<<<<"t","i","m","e",",","f","l","u","x",",","f","l","u","x","_","e","r","r">>, <<"2",",","3",",","0",".","5">>, <<"1",",","0">>>>, NL),
    Join(<<<<"t","i","m","e",",","f","l","u","x">>, <<"1",",","0">>>>, NL),
    <<"a","b","c">>,
    Join(<<<<"a",",","b",",","c",",","d",",","e",",","g">>, <<"#","c">>>>, NL),
    Join(<<<<"t","i","m","e",",","f","l","u","x">>, <<"x",",","y">>>>, NL),
    Join(<<<<"1"," ","2">>, <<"4"," ","5"," ","0",".","1">>>>, NL),
    <<"3"," ","0">> }

SampleFiles == { [name |-> n, content |-> c] : n \in FileNames, c \in SampleContents }

MaxUploads == 2
MaxClicks == 1

-----------------------------------------------------------------------------
(* components/DataUploadInterface and the MLModelService singleton *)

EndsWith(s, suf) == Len(s) >= Len(suf) /\ SubSeq(s, Len(s) - Len(suf) + 1, Len(s)) = suf

\* parseFileData without its .csv branch: a .csv file is read as white-space text
parseFileDataAsText(file, content) ==
  LET fileName == ToLower(file.name)
  IN  IF EndsWith(fileName, <<".","f","i","t","s">>) THEN parseFITSData(content)
      ELSE parseTextData(content)

parseFileData(file, content) ==
  LET fileName == ToLower(file.name)
  IN  IF EndsWith(fileName, <<".","c","s","v">>) THEN parseCSVData(content)
      ELSE IF EndsWith(fileName, <<".","f","i","t","s">>) THEN parseFITSData(content)
      ELSE parseTextData(content)

NoFile == [name |-> <<>>, content |-> <<>>]
NoRequest == [file |-> NoFile, parsed |-> Thrown, awaiting |-> 0, features |-> <<>>,
              path |-> "none"]
NoInterval == [active |-> FALSE, files |-> <<>>]
NoAnalysisInterval == [active |-> FALSE, currentStep |-> 0]

HarnessIdle == fn = "none" /\ arg = <<>> /\ ret = Thrown

OrchestratorIdle ==
  /\ uploadStatus = "idle"
  /\ uploadProgress = 0
  /\ analysisProgress = 0
  /\ uploadedFiles = <<>>
  /\ error = "null"
  /\ modelPrediction = Undefined
  /\ uploadInterval = NoInterval
  /\ analysisInterval = NoAnalysisInterval
  /\ pc = "none"
  /\ req = NoRequest
  /\ published = <<>>
  /\ stages = <<>>
  /\ startCount = 0
  /\ predictCount = 0
  /\ uploads = 0

ServiceIdle ==
  /\ isModelLoaded = FALSE
  /\ loadingPromise = 0
  /\ model = "undefined"
  /\ pendingLoads = {}
  /\ loadCount = 0

\* the validateWithML calls that Promise.all runs together (EnhancedExoplanetService)
Callers == {1, 2}

NoCall == [pc |-> "idle", data |-> Thrown.lc, awaiting |-> 0, started |-> 0,
           result |-> Undefined, path |-> "none"]

\* the fields of the MLModelService singleton
Fields == {"isModelLoaded", "loadingPromise", "model"}

NoAccess == [f \in Fields |-> [readers |-> {}, writers |-> {}]]

CallersIdle == calls = [c \in Callers |-> NoCall] /\ access = NoAccess

\* the MLAnalysis page before any analysis
PageIdle == currentPrediction = Undefined /\ analysisHistory = <<>> /\ completed = <<>>

Init == HarnessIdle /\ OrchestratorIdle /\ ServiceIdle /\ CallersIdle /\ PageIdle

pageVars == <<currentPrediction, analysisHistory, completed>>
harnessVars == <<fn, arg, ret>>
callerVars == <<calls, access>>
serviceVars == <<isModelLoaded, loadingPromise, model, pendingLoads, loadCount>>
componentVars ==
  <<uploadStatus, uploadProgress, analysisProgress, uploadedFiles, error, modelPrediction,
    uploadInterval, analysisInterval, pc, req, published, stages, startCount, predictCount,
    uploads>>

\* handleFileUpload without its setModelPrediction(null)
HandleFileUploadKeepsPrediction ==
  /\ uploadStatus \notin {"uploading", "processing"}
  /\ uploads < MaxUploads
  /\ \E f \in SampleFiles :
       /\ uploadedFiles' = <<f>>
       /\ uploadInterval' = [active |-> TRUE, files |-> <<f>>]
  /\ uploadStatus' = "uploading"
  /\ error' = "null"
  /\ uploads' = uploads + 1
  /\ startCount' = 0
  /\ predictCount' = 0
  /\ stages' = <<>>
  /\ published' = <<>>
  /\ req' = NoRequest
  /\ UNCHANGED <<uploadProgress, analysisProgress, analysisInterval, pc, modelPrediction>>
  /\ UNCHANGED <<harnessVars, pageVars, callerVars, serviceVars>>

\* handleFileUpload; the input element is disabled while uploading or processing
HandleFileUpload ==
  /\ uploadStatus \notin {"uploading", "processing"}
  /\ uploads < MaxUploads
  /\ \E f \in SampleFiles :
       /\ uploadedFiles' = <<f>>
       /\ uploadInterval' = [active |-> TRUE, files |-> <<f>>]
  /\ uploadStatus' = "uploading"
  /\ error' = "null"
  /\ modelPrediction' = Undefined
  /\ uploads' = uploads + 1
  /\ startCount' = 0
  /\ predictCount' = 0
  /\ stages' = <<>>
  /\ published' = <<>>
  /\ req' = NoRequest
  /\ UNCHANGED <<uploadProgress, analysisProgress, analysisInterval, pc>>
  /\ UNCHANGED <<harnessVars, pageVars, callerVars, serviceVars>>

\* the tick of uploadInterval without its clearInterval(uploadInterval)
UploadTickKeepsInterval ==
  /\ uploadInterval.active
  /\ startCount <= MaxUploads
  /\ IF uploadProgress >= 100
       THEN /\ uploadStatus' = "processing"
            /\ uploadProgress' = 100
            /\ analysisProgress' = 0
            /\ pc' = "readFileContent"
            /\ req' = [NoRequest EXCEPT !.file = uploadInterval.files[1]]
            /\ startCount' = startCount + 1
       ELSE /\ \E d \in ProgressIncrements : uploadProgress' = uploadProgress + d
            /\ UNCHANGED <<uploadStatus, analysisProgress, pc, req, startCount>>
  /\ UNCHANGED <<uploadedFiles, error, modelPrediction, uploadInterval, analysisInterval,
                 published, stages, predictCount, uploads>>
  /\ UNCHANGED <<harnessVars, pageVars, callerVars, serviceVars>>

\* a tick of uploadInterval: the updater given to setUploadProgress, which at 100
\* clears the interval, sets 'processing' and calls startAnalysis(files[0]);
\* startAnalysis runs up to its await of readFileContent
UploadTick ==
  /\ uploadInterval.active
  /\ IF uploadProgress >= 100
       THEN /\ uploadInterval' = NoInterval
            /\ uploadStatus' = "processing"
            /\ uploadProgress' = 100
            /\ analysisProgress' = 0
            /\ pc' = "readFileContent"
            /\ req' = [NoRequest EXCEPT !.file = uploadInterval.files[1]]
            /\ startCount' = startCount + 1
       ELSE /\ \E d \in ProgressIncrements : uploadProgress' = uploadProgress + d
            /\ UNCHANGED <<uploadInterval, uploadStatus, analysisProgress, pc, req, startCount>>
  /\ UNCHANGED <<uploadedFiles, error, modelPrediction, analysisInterval, published, stages,
                 predictCount, uploads>>
  /\ UNCHANGED <<harnessVars, pageVars, callerVars, serviceVars>>

\* the catch block of startAnalysis
AnalysisFailed(errorMessage) ==
  /\ error' = errorMessage
  /\ uploadStatus' = "error"
  /\ pc' = "none"

\* loadModel without its check of loadingPromise: every call that finds the model not
\* loaded starts a _loadModel of its own
loadModelEveryCall(p) ==
  IF isModelLoaded
    THEN p = 0 /\ UNCHANGED <<loadingPromise, pendingLoads, loadCount>>
  ELSE /\ p = loadCount + 1
       /\ loadingPromise' = p
       /\ pendingLoads' = pendingLoads \cup {p}
       /\ loadCount' = p

\* MLModelService.loadModel, called by predict: p is the promise predict awaits (0 when
\* the model is loaded already)
loadModel(p) ==
  IF isModelLoaded
    THEN p = 0 /\ UNCHANGED <<loadingPromise, pendingLoads, loadCount>>
  ELSE IF loadingPromise # 0
    THEN p = loadingPromise /\ UNCHANGED <<loadingPromise, pendingLoads, loadCount>>
  ELSE /\ p = loadCount + 1
       /\ loadingPromise' = p
       /\ pendingLoads' = pendingLoads \cup {p}
       /\ loadCount' = p

\* reader.onload: startAnalysis goes on with parseFileData; if that throws, the catch
\* block; otherwise it starts analysisInterval and calls mlModelService.predict, which
\* runs up to its await of loadModel
ReadFileDone ==
  /\ pc = "readFileContent"
  /\ \E lightCurveData \in { parseFileData(req.file, req.file.content) } :
         /\ stages' = Append(stages, "Parsing")
         /\ IF lightCurveData.threw
              THEN /\ AnalysisFailed("Analysis failed: Invalid CSV format")
                   /\ req' = [req EXCEPT !.parsed = lightCurveData]
                   /\ UNCHANGED <<analysisInterval, predictCount, serviceVars>>
              ELSE /\ analysisInterval' = [active |-> TRUE, currentStep |-> 0]
                   /\ predictCount' = predictCount + 1
                   /\ \E p \in 0..(loadCount + 1) :
                        /\ loadModel(p)
                        /\ req' = [req EXCEPT !.parsed = lightCurveData, !.awaiting = p]
                   /\ UNCHANGED <<isModelLoaded, model>>
                   /\ pc' = "loadModel"
                   /\ UNCHANGED <<error, uploadStatus>>
  /\ UNCHANGED <<uploadProgress, analysisProgress, uploadedFiles, modelPrediction,
                 uploadInterval, published, startCount, uploads>>
  /\ UNCHANGED <<harnessVars, pageVars, callerVars>>

\* reader.onerror
ReadFileFails ==
  /\ pc = "readFileContent"
  /\ AnalysisFailed("Analysis failed: Failed to read file")
  /\ UNCHANGED <<uploadProgress, analysisProgress, uploadedFiles, modelPrediction,
                 uploadInterval, analysisInterval, req, published, stages, startCount,
                 predictCount, uploads>>
  /\ UNCHANGED <<harnessVars, pageVars, callerVars, serviceVars>>

\* _loadModel, the execution behind promise p, reaches the end of its try block
LoadModelResolves(p) ==
  /\ p \in pendingLoads
  /\ pendingLoads' = pendingLoads \ {p}
  /\ model' = "loaded"
  /\ isModelLoaded' = TRUE
  /\ UNCHANGED <<loadingPromise, loadCount>>

\* one of the awaits of _loadModel rejects: its catch block
LoadModelCatches(p) ==
  /\ p \in pendingLoads
  /\ pendingLoads' = pendingLoads \ {p}
  /\ isModelLoaded' = TRUE
  /\ UNCHANGED <<loadingPromise, model, loadCount>>

LoadModelSucceeds ==
  /\ \E p \in pendingLoads : LoadModelResolves(p)
  /\ UNCHANGED <<harnessVars, pageVars, callerVars, componentVars>>

LoadModelFails ==
  /\ \E p \in pendingLoads : LoadModelCatches(p)
  /\ UNCHANGED <<harnessVars, pageVars, callerVars, componentVars>>

\* predict has resolved: the rest of the try block of startAnalysis
AnalysisComplete(prediction) ==
  /\ analysisProgress' = 100
  /\ analysisInterval' = NoAnalysisInterval
  /\ modelPrediction' = Defined(prediction)
  /\ uploadStatus' = "complete"
  /\ published' = Append(published, prediction)
  /\ pc' = "none"

\* predict after its await of loadModel: preprocessLightCurve, then the trained model
\* (up to the await of the tfjs import), or the simulation; the catch block returns
\* the mock prediction
PredictAfterLoad ==
  /\ pc = "loadModel"
  /\ req.awaiting \notin pendingLoads
  /\ \E data \in { req.parsed.lc } : \E pre \in { preprocessLightCurve(data) } :
         IF pre.threw
           THEN /\ \E random \in RandomValues : AnalysisComplete(getMockPrediction(data, random))
                /\ req' = [req EXCEPT !.path = "mock"]
                /\ stages' = Append(stages, "FeatureExtraction")
           ELSE IF model = "loaded"
             THEN /\ pc' = "tfImport"
                  /\ req' = [req EXCEPT !.features = pre.features, !.path = "model"]
                  /\ stages' = Append(stages, "FeatureExtraction")
                  /\ UNCHANGED <<analysisProgress, analysisInterval, modelPrediction,
                                 uploadStatus, published>>
             ELSE /\ \E random \in RandomValues :
                       \E probability \in { simulateModelPrediction(pre.features, data, random) } :
                         AnalysisComplete(PredictResult(probability,
                                            NMin(NMul(probability, Fin(120)), Num(1)), data))
                  /\ req' = [req EXCEPT !.features = pre.features, !.path = "simulation"]
                  /\ stages' = stages \o <<"FeatureExtraction", "ExternalScoring">>
  /\ UNCHANGED <<uploadProgress, uploadedFiles, error, uploadInterval, startCount,
                 predictCount, uploads>>
  /\ UNCHANGED <<harnessVars, pageVars, callerVars, serviceVars>>

\* the tfjs import resolves: the input tensor, model.predict, up to the await of
\* prediction.data()
TfImported ==
  /\ pc = "tfImport"
  /\ pc' = "predictionData"
  /\ UNCHANGED <<uploadStatus, uploadProgress, analysisProgress, uploadedFiles, error,
                 modelPrediction, uploadInterval, analysisInterval, req, published, stages,
                 startCount, predictCount, uploads>>
  /\ UNCHANGED <<harnessVars, pageVars, callerVars, serviceVars>>

\* prediction.data() resolves with the model's output
PredictionData ==
  /\ pc = "predictionData"
  /\ \E probability \in ModelOutputs :
       AnalysisComplete(PredictResult(probability, NMin(NMul(probability, Fin(120)), Num(1)),
                                      req.parsed.lc))
  /\ stages' = Append(stages, "ExternalScoring")
  /\ UNCHANGED <<uploadProgress, uploadedFiles, error, uploadInterval, req, startCount,
                 predictCount, uploads>>
  /\ UNCHANGED <<harnessVars, pageVars, callerVars, serviceVars>>

\* the import, model.predict or prediction.data() throws: the catch block of predict
ModelInferenceThrows ==
  /\ pc \in {"tfImport", "predictionData"}
  /\ \E random \in RandomValues : AnalysisComplete(getMockPrediction(req.parsed.lc, random))
  /\ req' = [req EXCEPT !.path = "mock"]
  /\ UNCHANGED <<uploadProgress, uploadedFiles, error, uploadInterval, stages, startCount,
                 predictCount, uploads>>
  /\ UNCHANGED <<harnessVars, pageVars, callerVars, serviceVars>>

\* the progress values of progressSteps
ProgressSteps == <<20, 40, 70, 90>>

\* a tick of analysisInterval: the updater given to setAnalysisProgress
AnalysisTick ==
  /\ analysisInterval.active
  /\ IF analysisInterval.currentStep < Len(ProgressSteps)
       THEN /\ analysisProgress' = ProgressSteps[analysisInterval.currentStep + 1]
            /\ analysisInterval' = [analysisInterval EXCEPT !.currentStep = @ + 1]
       ELSE IF analysisProgress >= 90
         THEN analysisInterval' = NoAnalysisInterval /\ analysisProgress' = 90
         ELSE /\ \E d \in {0, 2, 4} : analysisProgress' = analysisProgress + d
              /\ UNCHANGED analysisInterval
  /\ UNCHANGED <<uploadStatus, uploadProgress, uploadedFiles, error, modelPrediction,
                 uploadInterval, pc, req, published, stages, startCount, predictCount, uploads>>
  /\ UNCHANGED <<harnessVars, pageVars, callerVars, serviceVars>>

\* a click on the results card, rendered while modelPrediction is set
CardClick ==
  /\ modelPrediction.defined
  /\ Len(published) <= MaxClicks
  /\ published' = Append(published, modelPrediction.val)
  /\ UNCHANGED <<uploadStatus, uploadProgress, analysisProgress, uploadedFiles, error,
                 modelPrediction, uploadInterval, analysisInterval, pc, req, stages,
                 startCount, predictCount, uploads>>
  /\ UNCHANGED <<harnessVars, pageVars, callerVars, serviceVars>>

\* resetUpload; its button is rendered while the status is 'complete'
ResetUpload ==
  /\ uploadStatus = "complete"
  /\ uploadStatus' = "idle"
  /\ uploadProgress' = 0
  /\ analysisProgress' = 0
  /\ uploadedFiles' = <<>>
  /\ error' = "null"
  /\ modelPrediction' = Undefined
  /\ UNCHANGED <<uploadInterval, analysisInterval, pc, req, published, stages, startCount,
                 predictCount, uploads>>
  /\ UNCHANGED <<harnessVars, pageVars, callerVars, serviceVars>>

Next ==
  \/ HandleFileUpload
  \/ UploadTick
  \/ ReadFileDone
  \/ ReadFileFails
  \/ LoadModelSucceeds
  \/ LoadModelFails
  \/ PredictAfterLoad
  \/ TfImported
  \/ PredictionData
  \/ ModelInferenceThrows
  \/ AnalysisTick
  \/ CardClick
  \/ ResetUpload

Spec == Init /\ [][Next]_vars
-----------------------------------------------------------------------------
(* The parser's functions applied to every input *)

InitParse ==
  /\ fn = "none"
  /\ arg \in Contents
  /\ ret = Thrown
  /\ OrchestratorIdle
  /\ ServiceIdle
  /\ CallersIdle
  /\ PageIdle

CallParseCSV ==
  /\ fn = "none"
  /\ fn' = "parseCSVData"
  /\ ret' = parseCSVData(arg)
  /\ UNCHANGED <<arg, componentVars, serviceVars, callerVars, pageVars>>

CallParseText ==
  /\ fn = "none"
  /\ fn' = "parseTextData"
  /\ ret' = parseTextData(arg)
  /\ UNCHANGED <<arg, componentVars, serviceVars, callerVars, pageVars>>

CallParseFITS ==
  /\ fn = "none"
  /\ fn' = "parseFITSData"
  /\ ret' = parseFITSData(arg)
  /\ UNCHANGED <<arg, componentVars, serviceVars, callerVars, pageVars>>

NextParse == CallParseCSV \/ CallParseText \/ CallParseFITS

SpecParse == InitParse /\ [][NextParse]_vars
-----------------------------------------------------------------------------
(* Claims about the parser *)

\* the header tokens parseCSVData reads from the first line of its input
HeadersOf(content) ==
  LET hs == Split(Split(Trim(content), "\n")[1], ",")
  IN  [j \in 1..Len(hs) |-> ToLower(Trim(hs[j]))]

\* C1: every light curve returned by parseCSVData, parseTextData and parseFITSData has
\* len(time) = len(flux), and its error array is absent or has len(time) entries
C1_LengthsAgree ==
  (fn # "none" /\ ~ret.threw) =>
     /\ Len(ret.lc.time) = Len(ret.lc.flux)
     /\ (ret.lc.error.defined => Len(ret.lc.error.val) = Len(ret.lc.time))

\* the header names a time column and a flux column
RecognisedHeader(content) ==
  /\ FindIndex(HeadersOf(content), CSVTimeHeader) # 0 - 1
  /\ FindIndex(HeadersOf(content), CSVFluxHeader) # 0 - 1

\* C2: for CSV text with a valid header, on the strict path and on the wide-table path,
\* parseCSVData returns a light curve with len(time) > 0, whether or not a data row parses
C2_NeverEmpty ==
  (fn = "parseCSVData" /\ RecognisedHeader(arg)) =>
     (~ret.threw /\ Len(ret.lc.time) > 0)
-----------------------------------------------------------------------------
(* Claims about the upload orchestrator *)

\* the parse step of the current request has run
Parsed == Len(stages) >= 1

\* a .csv file whose header has fewer than two columns and lacks a time or a flux column
UnrecognisedCSV(file) ==
  /\ EndsWith(ToLower(file.name), <<".","c","s","v">>)
  /\ Len(HeadersOf(file.content)) < 2
  /\ ~RecognisedHeader(file.content)

C4_NonEmptyToPredict ==
  predictCount >= 1 => (Len(req.parsed.lc.time) >= 1 /\ Len(req.parsed.lc.flux) >= 1)

\* the stages in `order` occur in `run`, in that order, from position i of `run` on
RECURSIVE InOrder(_, _, _)
InOrder(order, run, i) ==
  IF order = <<>> THEN TRUE
  ELSE IF i > Len(run) THEN FALSE
  ELSE IF run[i] = Head(order) THEN InOrder(Tail(order), run, i + 1)
  ELSE InOrder(order, run, i + 1)

\* C5: a request that is complete has passed through Parsing, FeatureExtraction,
\* PhysicsCalculation and Validation, in this order
C5_AllStagesBeforeComplete ==
  uploadStatus = "complete" =>
    InOrder(<<"Parsing", "FeatureExtraction", "PhysicsCalculation", "Validation">>, stages, 1)

\* a number in [0, 1]
InUnitInterval(x) == IsFinite(x) /\ x.v >= 0 /\ x.v <= 100

\* C6: a request never completes, and nothing is published, with a detection
\* probability that is NaN or outside [0, 1]
C6_ProbabilityInRange ==
  /\ uploadStatus = "complete" => InUnitInterval(modelPrediction.val.probability)
  /\ \A i \in 1..Len(published) : InUnitInterval(published[i].probability)

\* the results predict can return for `data` from the trained model
ScoredResult(probability, data) ==
  PredictResult(probability, NMin(NMul(probability, Fin(120)), Num(1)), data)

TrainedModelResults(data) == { ScoredResult(p, data) : p \in ModelOutputs }

\* C7: a result of the simulation or of the mock prediction can be told apart from
\* every result the trained model could have returned for the same light curve
C7_FallbackIsMarked ==
  (uploadStatus = "complete" /\ req.path \in {"simulation", "mock"}) =>
    modelPrediction.val \notin TrainedModelResults(req.parsed.lc)

\* C9: for each accepted upload startAnalysis and predict run at most once, and exactly
\* once when the request has left 'uploading'; from the error state only a new upload
\* (handleFileUpload) starts another analysis
C9_StartedOnce ==
  /\ [](/\ startCount <= 1
        /\ predictCount <= startCount
        /\ (uploadStatus \in {"processing", "complete", "error"} => startCount = 1)
        /\ (uploadStatus = "complete" => predictCount = 1)
        /\ (uploadStatus = "uploading" => startCount = 0))
  /\ [][uploadStatus = "error" =>
          (/\ (startCount' # startCount \/ predictCount' # predictCount \/ stages' # stages)
                => (uploads' = uploads + 1 /\ uploadStatus' = "uploading")
           /\ pc' = pc)]_vars

\* witness of C9: a second upload has completed after ticks of its upload timer, with
\* one startAnalysis and one predict
C9_SecondUploadComplete ==
  uploads = 2 /\ uploadStatus = "complete" /\ startCount = 1 /\ predictCount = 1

\* C10: while the status is 'uploading', 'processing' or 'error', modelPrediction is null
\* and nothing has been published for the current request; modelPrediction is set only
\* with the status 'complete', after predict has resolved, and is what was published
C10_PublishedOnlyComplete ==
  /\ uploadStatus \in {"uploading", "processing", "error"} =>
       (~modelPrediction.defined /\ published = <<>>)
  /\ modelPrediction.defined =>
       /\ uploadStatus = "complete"
       /\ req.path \in {"model", "simulation", "mock"}
       /\ pc = "none"
       /\ Len(published) >= 1
       /\ \A i \in 1..Len(published) : published[i] = modelPrediction.val

\* witness of C10: a second upload is being processed after a first one completed
C10_ProcessingAfterComplete ==
  uploads = 2 /\ uploadStatus = "processing" /\ pc = "loadModel" /\ isModelLoaded
-----------------------------------------------------------------------------
(* EnhancedExoplanetService.validateWithML: the calls of predict that run together *)

\* generateSyntheticLightCurve makes 2000 observations; the model keeps the first
\* SyntheticLen of them
SyntheticLen == 3
Observations == 2000
MinSpan == 365

\* the values of exoplanet.orbitalPeriodDays
Periods == {1, 100, 400}

\* time[i] = (i / observations) * max(period * 10, 365); the flux 1.0 + transit + noise
\* and the error 0.0005 differ from 1.0 and from 0 by less than a hundredth
generateSyntheticLightCurve(period) ==
  [time  |-> [i \in 1..SyntheticLen |->
                Fin(RoundDiv((i - 1) * Max2(period * 10, MinSpan) * 100, Observations))],
   flux  |-> [i \in 1..SyntheticLen |-> Fin(100)],
   error |-> Defined([i \in 1..SyntheticLen |-> Fin(0)]),
   metadata |-> [source |-> "synthetic", targetId |-> Undefined]]

Read(acc, f, c) == [acc EXCEPT ![f].readers = @ \cup {c}]
Write(acc, f, c) == [acc EXCEPT ![f].writers = @ \cup {c}]

\* the call whose loadModel started the _loadModel execution behind promise p
Starter(p) == CHOOSE c \in Callers : calls[c].started = p

\* validateWithML(exoplanet) up to the await of loadModel in predict
ValidateWithML(c) ==
  /\ calls[c].pc = "idle"
  /\ \E period \in Periods : \E p \in 0..(loadCount + 1) :
       /\ loadModel(p)
       /\ calls' = [calls EXCEPT ![c] =
                      [@ EXCEPT !.pc = "loadModel",
                                !.data = generateSyntheticLightCurve(period),
                                !.awaiting = p,
                                !.started = IF p > loadCount THEN p ELSE 0]]
  /\ access' = IF isModelLoaded THEN Read(access, "isModelLoaded", c)
               ELSE IF loadingPromise # 0
                 THEN Read(Read(access, "isModelLoaded", c), "loadingPromise", c)
               ELSE Write(Read(Read(access, "isModelLoaded", c), "loadingPromise", c),
                          "loadingPromise", c)
  /\ UNCHANGED <<isModelLoaded, model>>
  /\ UNCHANGED <<harnessVars, pageVars, componentVars>>

\* _loadModel started by a call reaches the end of its try block
CallerLoadSucceeds ==
  /\ \E p \in pendingLoads :
       /\ LoadModelResolves(p)
       /\ access' = Write(Write(access, "model", Starter(p)), "isModelLoaded", Starter(p))
  /\ UNCHANGED <<calls, harnessVars, pageVars, componentVars>>

\* _loadModel started by a call runs its catch block
CallerLoadFails ==
  /\ \E p \in pendingLoads :
       /\ LoadModelCatches(p)
       /\ access' = Write(access, "isModelLoaded", Starter(p))
  /\ UNCHANGED <<calls, harnessVars, pageVars, componentVars>>

\* the call's predict has returned `prediction`
Resolve(c, prediction, path) ==
  calls' = [calls EXCEPT ![c] = [@ EXCEPT !.pc = "done", !.result = Defined(prediction),
                                          !.path = path]]

\* predict of call c after its await of loadModel
CallerAfterLoad(c) ==
  /\ calls[c].pc = "loadModel"
  /\ calls[c].awaiting \notin pendingLoads
  /\ \E data \in { calls[c].data } : \E pre \in { preprocessLightCurve(data) } :
       IF pre.threw
         THEN /\ \E random \in RandomValues : Resolve(c, getMockPrediction(data, random), "mock")
              /\ UNCHANGED access
         ELSE /\ access' = Read(access, "model", c)
              /\ IF model = "loaded"
                   THEN calls' = [calls EXCEPT ![c].pc = "tfImport"]
                   ELSE \E random \in RandomValues :
                          \E probability \in { simulateModelPrediction(pre.features, data, random) } :
                            Resolve(c, PredictResult(probability,
                                         NMin(NMul(probability, Fin(120)), Num(1)), data),
                                    "simulation")
  /\ UNCHANGED <<harnessVars, pageVars, componentVars, serviceVars>>

\* the tfjs import of call c resolves: this.model.predict, up to the await of
\* prediction.data()
CallerTfImported(c) ==
  /\ calls[c].pc = "tfImport"
  /\ calls' = [calls EXCEPT ![c].pc = "predictionData"]
  /\ access' = Read(access, "model", c)
  /\ UNCHANGED <<harnessVars, pageVars, componentVars, serviceVars>>

\* prediction.data() of call c resolves with the model's output
CallerPredictionData(c) ==
  /\ calls[c].pc = "predictionData"
  /\ \E probability \in ModelOutputs :
       Resolve(c, PredictResult(probability, NMin(NMul(probability, Fin(120)), Num(1)),
                                calls[c].data), "model")
  /\ UNCHANGED <<access, harnessVars, pageVars, componentVars, serviceVars>>

\* the import, model.predict or prediction.data() of call c throws: the catch block
CallerInferenceThrows(c) ==
  /\ calls[c].pc \in {"tfImport", "predictionData"}
  /\ \E random \in RandomValues : Resolve(c, getMockPrediction(calls[c].data, random), "mock")
  /\ UNCHANGED <<access, harnessVars, pageVars, componentVars, serviceVars>>

NextConc ==
  \/ \E c \in Callers : ValidateWithML(c)
  \/ CallerLoadSucceeds
  \/ CallerLoadFails
  \/ \E c \in Callers : CallerAfterLoad(c)
  \/ \E c \in Callers : CallerTfImported(c)
  \/ \E c \in Callers : CallerPredictionData(c)
  \/ \E c \in Callers : CallerInferenceThrows(c)

SpecConc == Init /\ [][NextConc]_vars
-----------------------------------------------------------------------------
(* Claims about concurrent requests *)

\* a field one call has written and another call has read or written
SharedBetweenCalls(f) ==
  \E c \in access[f].writers : (access[f].readers \cup access[f].writers) \ {c} # {}

PossibleResults(data) ==
  TrainedModelResults(data)
    \cup { getMockPrediction(data, random) : random \in RandomValues }
    \cup { ScoredResult(simulateModelPrediction(<<>>, data, random), data) :
             random \in RandomValues }

-----------------------------------------------------------------------------
(* Numbers of the physics calculator (services/physicsCalculationService)  *)
(*                                                                         *)
(* Every formula of the calculator is a product of powers, so a double is  *)
(* held by its sign and the base-10 logarithm of its magnitude:            *)
(* k = "fin" is s * 10^(e + f / 10^8) with s = 1 or -1, e an integer and   *)
(* 0 <= f < 10^8; k = "zero", k = "inf" (with its sign s) and k = "nan"    *)
(* are 0, +/-Infinity and NaN.  One unit of f is a relative step of        *)
(* 2.3e-8, so a product or a root is rounded by at most that much.  A      *)
(* magnitude above the largest double becomes Infinity and one below half  *)
(* the smallest becomes 0, as IEEE-754 arithmetic does; the loss of        *)
(* precision of subnormal results is not represented.                      *)

Decade == 10 ^ 8

D(e, f) == [k |-> "fin", s |-> 1, e |-> e, f |-> f]
DNeg(a) == [a EXCEPT !.s = 0 - a.s]
DNaN == [k |-> "nan", s |-> 0, e |-> 0, f |-> 0]
DZero == [k |-> "zero", s |-> 0, e |-> 0, f |-> 0]
DInf(s) == [k |-> "inf", s |-> s, e |-> 0, f |-> 0]
DOne == D(0, 0)

\* Number.MAX_VALUE = 1.7976931348623157e308 and half of Number.MIN_VALUE = 4.94e-324
DMax == D(308, 25471556)
DHalfMin == D(0 - 324, 39269695)

\* (e1, f1) < (e2, f2) as logarithms
LogLt(e1, f1, e2, f2) == e1 < e2 \/ (e1 = e2 /\ f1 < f2)

\* the double of sign s and logarithm e + f / 10^8, f any integer
DNorm(s, e, f) ==
  LET e1 == e + (f \div Decade)
      f1 == f % Decade
  IN  IF LogLt(DMax.e, DMax.f, e1, f1) THEN DInf(s)
      ELSE IF LogLt(e1, f1, DHalfMin.e, DHalfMin.f) THEN DZero
      ELSE [k |-> "fin", s |-> s, e |-> e1, f |-> f1]

\* a * b
DMul(a, b) ==
  IF a.k = "nan" \/ b.k = "nan" THEN DNaN
  ELSE IF a.k = "zero" \/ b.k = "zero"
    THEN (IF a.k = "inf" \/ b.k = "inf" THEN DNaN ELSE DZero)
  ELSE IF a.k = "inf" \/ b.k = "inf" THEN DInf(a.s * b.s)
  ELSE DNorm(a.s * b.s, a.e + b.e, a.f + b.f)

\* a / b
DDiv(a, b) ==
  IF a.k = "nan" \/ b.k = "nan" THEN DNaN
  ELSE IF a.k = "zero" THEN (IF b.k = "zero" THEN DNaN ELSE DZero)
  ELSE IF a.k = "inf" THEN (IF b.k = "inf" THEN DNaN
                            ELSE DInf(IF b.k = "zero" THEN a.s ELSE a.s * b.s))
  ELSE IF b.k = "zero" THEN DInf(a.s)
  ELSE IF b.k = "inf" THEN DZero
  ELSE DNorm(a.s * b.s, a.e - b.e, a.f - b.f)

\* |a| < |b| for a and b of one sign, neither zero nor NaN
MagLt(a, b) ==
  IF a.k = "inf" THEN FALSE
  ELSE IF b.k = "inf" THEN TRUE
  ELSE LogLt(a.e, a.f, b.e, b.f)

\* a < b; false when either is NaN
DLt(a, b) ==
  IF a.k = "nan" \/ b.k = "nan" THEN FALSE
  ELSE IF a.s # b.s THEN a.s < b.s
  ELSE IF a.s > 0 THEN MagLt(a, b)
  ELSE IF a.s < 0 THEN MagLt(b, a)
  ELSE FALSE

\* a <= b, a > b, a >= b; false when either is NaN
DLe(a, b) == a.k # "nan" /\ b.k # "nan" /\ ~DLt(b, a)
DGt(a, b) == DLt(b, a)
DGe(a, b) == DLe(b, a)

\* 10^((e + f / 10^8) * n / d) with the sign s, for n, d > 0
LogScale(s, e, f, n, d) ==
  DNorm(s, (e * n) \div d, (((e * n) % d) * Decade + f * n) \div d)

\* Math.pow(a, n / d) for integers n, d > 0
DPow(a, n, d) ==
  IF a.k = "nan" \/ a.k = "zero" THEN a
  ELSE IF a.s < 0 /\ d # 1 THEN DNaN
  ELSE IF a.k = "inf" THEN DInf(IF n % 2 = 0 THEN 1 ELSE a.s)
  ELSE LogScale(IF n % 2 = 0 THEN 1 ELSE a.s, a.e, a.f, n, d)

\* Math.sqrt, Math.cbrt
DSqrt(a) == DPow(a, 1, 2)
DCbrt(a) ==
  IF a.k # "fin" THEN a ELSE LogScale(a.s, a.e, a.f, 1, 3)

-----------------------------------------------------------------------------
(* physicsCalculationService *)

G       == D(0 - 11, 82440572)   \* 6.67430e-11
SIGMA   == D(0 - 8, 75361174)    \* 5.670374419e-8
M_SUN   == D(30, 29851904)       \* 1.98847e30
R_SUN   == D(8, 84242200)        \* 6.957e8
L_SUN   == D(26, 58297193)       \* 3.828e26
AU      == D(11, 17492541)       \* 1.495978707e11
M_EARTH == D(24, 77611980)       \* 5.972e24
R_EARTH == D(6, 80420761)        \* 6.371e6
PI      == D(0, 49714987)        \* Math.PI

\* the literals of the calculator
TwentyFour == D(1, 38021124)     \* 24.0
SecondsPerHour == D(3, 55630250) \* 3600.0
Two   == D(0, 30103000)          \* 2.0
Three == D(0, 47712125)          \* 3.0
Four  == D(0, 60205999)          \* 4.0
Thousand == D(3, 0)              \* 1000.0

calculateSemiMajorAxis(periodDays, starMassSolar) ==
  IF DLe(periodDays, DZero) \/ DLe(starMassSolar, DZero) THEN DNaN
  ELSE LET P       == DMul(DMul(periodDays, TwentyFour), SecondsPerHour)
           M       == DMul(starMassSolar, M_SUN)
           a_cubed == DDiv(DMul(DMul(DMul(G, M), P), P), DMul(DMul(Four, PI), PI))
           a       == DCbrt(a_cubed)
       IN  DDiv(a, AU)

\* a calculator that returns the default period of 365 days instead of deriving one
DefaultPeriod(semiMajorAxisAU, starMassSolar) == D(2, 56229286)

calculateOrbitalPeriod(semiMajorAxisAU, starMassSolar) ==
  IF DLe(semiMajorAxisAU, DZero) \/ DLe(starMassSolar, DZero) THEN DNaN
  ELSE LET a         == DMul(semiMajorAxisAU, AU)
           M         == DMul(starMassSolar, M_SUN)
           T_squared == DDiv(DMul(DMul(DMul(DMul(DMul(Four, PI), PI), a), a), a), DMul(G, M))
           T         == DSqrt(T_squared)
       IN  DDiv(T, DMul(TwentyFour, SecondsPerHour))

calculateStellarLuminosity(radiusSolar, tempK) ==
  IF DLe(radiusSolar, DZero) \/ DLe(tempK, DZero) THEN DNaN
  ELSE LET R == DMul(radiusSolar, R_SUN)
           L == DMul(DMul(DMul(DMul(DMul(Four, PI), R), R), SIGMA), DPow(tempK, 4, 1))
       IN  DDiv(L, L_SUN)

\* the default albedo is 0.3, and no caller passes another: 1.0 - albedo = 0.7
calculateEquilibriumTemperature(starTempK, starRadiusSolar, semiMajorAxisAU) ==
  IF DLe(starTempK, DZero) \/ DLe(starRadiusSolar, DZero) \/ DLe(semiMajorAxisAU, DZero)
    THEN DNaN
    ELSE LET a          == DMul(semiMajorAxisAU, AU)
             R_star     == DMul(starRadiusSolar, R_SUN)
             term       == DSqrt(DDiv(R_star, DMul(Two, a)))
             absorption == DPow(D(0 - 1, 84509804), 1, 4)
         IN  DMul(DMul(starTempK, term), absorption)

calculateHabitableZone(starLuminositySolar) ==
  IF DLe(starLuminositySolar, DZero) THEN [inner |-> DNaN, outer |-> DNaN]
  ELSE LET scale == DSqrt(starLuminositySolar)
       IN  [inner |-> DMul(D(0 - 1, 97772361), scale),   \* 0.95 * scale
            outer |-> DMul(D(0, 22271647), scale)]       \* 1.67 * scale

calculateSurfaceGravity(radiusEarth, massEarth) ==
  IF DLe(radiusEarth, DZero) \/ DLe(massEarth, DZero) THEN DNaN
  ELSE LET R == DMul(radiusEarth, R_EARTH)
           M == DMul(massEarth, M_EARTH)
       IN  DDiv(DMul(G, M), DMul(R, R))

calculateEscapeVelocity(radiusEarth, massEarth) ==
  IF DLe(radiusEarth, DZero) \/ DLe(massEarth, DZero) THEN DNaN
  ELSE LET R == DMul(radiusEarth, R_EARTH)
           M == DMul(massEarth, M_EARTH)
       IN  DSqrt(DDiv(DMul(DMul(Two, G), M), R))

calculateDensity(radiusEarth, massEarth) ==
  IF DLe(radiusEarth, DZero) \/ DLe(massEarth, DZero) THEN DNaN
  ELSE LET R      == DMul(radiusEarth, R_EARTH)
           M      == DMul(massEarth, M_EARTH)
           volume == DMul(DMul(DMul(DMul(DDiv(Four, Three), PI), R), R), R)
       IN  DDiv(DDiv(M, volume), Thousand)

\* a validator that stops at its first warning
PushFirst(warnings, cond, w) == IF cond /\ warnings = <<>> THEN <<w>> ELSE warnings

\* warnings.push(w) when cond
PushIf(warnings, cond, w) == IF cond THEN Append(warnings, w) ELSE warnings

\* params is a PhysicsCalculationInput: each field is Undefined or Defined(number)
validatePhysicalPlausibility(params) ==
  LET w1 == IF params.radiusEarth.defined
              THEN PushIf(PushIf(<<>>,
                     DLt(params.radiusEarth.val, D(0 - 1, 69897000)),      \* < 0.5
                     "Planet radius very small (< 0.5 R_Earth)"),
                     DGt(params.radiusEarth.val, D(1, 0)),                 \* > 10
                     "Planet radius very large (> 10 R_Earth)")
              ELSE <<>>
      w2 == IF params.massEarth.defined
              THEN PushIf(PushIf(w1,
                     DLt(params.massEarth.val, D(0 - 1, 0)),               \* < 0.1
                     "Planet mass very small (< 0.1 M_Earth)"),
                     DGt(params.massEarth.val, D(3, 0)),                   \* > 1000
                     "Planet mass very large (> 1000 M_Earth)")
              ELSE w1
      w3 == IF params.radiusEarth.defined /\ params.massEarth.defined
              THEN LET density == calculateDensity(params.radiusEarth.val, params.massEarth.val)
                   IN  PushIf(PushIf(w2,
                         DLt(density, D(0 - 1, 47712125)),                 \* < 0.3
                         "Density unusually low (< 0.3 g/cm3 - unlikely)"),
                         DGt(density, D(1, 14612804)),                     \* > 14
                         "Density unusually high (> 14 g/cm3 - iron core planet)")
              ELSE w2
      w4 == IF params.orbitalPeriodDays.defined
              THEN PushIf(PushIf(w3,
                     DLt(params.orbitalPeriodDays.val, D(0 - 1, 0)),       \* < 0.1
                     "Orbital period very short (< 0.1 days)"),
                     DGt(params.orbitalPeriodDays.val, D(4, 0)),           \* > 10000
                     "Orbital period very long (> 10000 days)")
              ELSE w3
  IN  IF params.transitDepthPPM.defined
        THEN PushIf(w4, DGt(params.transitDepthPPM.val, D(4, 0)),          \* > 10000
                    "Transit depth unusually large (> 1%)")
        ELSE w4

\* Math.pow(radiusEarth, 1.8), the branch of radiusEarth < 1.5
TerrestrialMass(radiusEarth) == DPow(radiusEarth, 9, 5)
\* Math.pow(radiusEarth, 2.5), the branch of 1.5 <= radiusEarth < 4
SuperEarthMass(radiusEarth) == DPow(radiusEarth, 5, 2)

estimateMassFromRadius(radiusEarth) ==
  IF DLt(radiusEarth, D(0, 17609126)) THEN TerrestrialMass(radiusEarth)    \* < 1.5
  ELSE IF DLt(radiusEarth, Four) THEN SuperEarthMass(radiusEarth)
  ELSE DPow(radiusEarth, 7, 2)                                             \* Math.pow(r, 3.5)

\* a calculator that takes the default whether or not the field is present
OrElseDefault(x, d) == d

\* x ?? d
OrElse(x, d) == IF x.defined THEN x.val ELSE d

calculate(input) ==
  LET warnings      == validatePhysicalPlausibility(input)
      starMass      == OrElse(input.starMassSolar, DOne)
      starRadius    == OrElse(input.starRadiusSolar, DOne)
      starTemp      == OrElse(input.starTempK, D(3, 76177754))             \* 5778
      starLuminosity == IF input.starLuminositySolar.defined
                          THEN input.starLuminositySolar.val
                          ELSE calculateStellarLuminosity(starRadius, starTemp)
      orbitalPeriod == IF input.semiMajorAxisAU.defined /\ ~input.orbitalPeriodDays.defined
                         THEN calculateOrbitalPeriod(input.semiMajorAxisAU.val, starMass)
                         ELSE OrElse(input.orbitalPeriodDays, D(2, 56229286))   \* 365
      semiMajorAxis == IF input.orbitalPeriodDays.defined /\ ~input.semiMajorAxisAU.defined
                         THEN calculateSemiMajorAxis(input.orbitalPeriodDays.val, starMass)
                         ELSE OrElse(input.semiMajorAxisAU, DOne)
      hz            == calculateHabitableZone(starLuminosity)
      radiusEarth   == OrElse(input.radiusEarth, DOne)
      massEarth     == IF input.massEarth.defined THEN input.massEarth.val
                       ELSE estimateMassFromRadius(radiusEarth)
  IN  [orbitalPeriodDays       |-> orbitalPeriod,
       semiMajorAxisAU         |-> semiMajorAxis,
       equilibriumTemperatureK |-> calculateEquilibriumTemperature(starTemp, starRadius,
                                                                   semiMajorAxis),
       habitableZoneInnerAU    |-> hz.inner,
       habitableZoneOuterAU    |-> hz.outer,
       inHabitableZone         |-> DGe(semiMajorAxis, hz.inner) /\ DLe(semiMajorAxis, hz.outer),
       surfaceGravityMS2       |-> calculateSurfaceGravity(radiusEarth, massEarth),
       escapeVelocityMS        |-> calculateEscapeVelocity(radiusEarth, massEarth),
       densityGCM3             |-> calculateDensity(radiusEarth, massEarth),
       starLuminositySolar     |-> starLuminosity,
       starRadiusM             |-> DMul(starRadius, R_SUN),
       isPhysicallyPlausible   |-> warnings = <<>>,
       warnings                |-> warnings]

\* x || d: d for NaN and 0
OrDefault(x, d) == IF x.k = "nan" \/ x.k = "zero" THEN d ELSE x

\* EnhancedExoplanetService.isInHabitableZone
isInHabitableZone(semiMajorAxisAU) ==
  DGt(semiMajorAxisAU, D(0 - 1, 97772361)) /\ DLt(semiMajorAxisAU, D(0, 22271647))

\* the fields of mapNASAToExoplanetData's record that place the planet; r holds the
\* parseFloat of pl_orbsmax, st_teff and st_rad
mapNASAToExoplanetData(r) ==
  [semiMajorAxisAU |-> OrDefault(r.pl_orbsmax, DOne),
   starTempK       |-> OrDefault(r.st_teff, D(3, 76177754)),       \* || 5778
   starRadiusSolar |-> OrDefault(r.st_rad, DOne),
   inHabitableZone |-> isInHabitableZone(OrDefault(r.pl_orbsmax, DOne))]

-----------------------------------------------------------------------------
(* The calculator's functions applied to every input *)

\* the values a field of the input takes
PeriodValues     == {Undefined, Defined(DZero), Defined(D(0 - 2, 69897000)),   \* 0, 0.05
                     Defined(D(2, 56229286)), Defined(D(4, 30103000))}         \* 365, 20000
AxisValues       == {Undefined, Defined(D(0 - 1, 97772361)), Defined(DOne),    \* 0.95, 1
                     Defined(D(2, 0))}                                         \* 100
RadiusValues     == {Undefined, Defined(DZero), Defined(D(0 - 1, 47712125)),   \* 0, 0.3
                     Defined(DOne), Defined(D(1, 0)), Defined(D(1, 30103000))} \* 1, 10, 20
MassValues       == {Undefined, Defined(D(0 - 2, 69897000)), Defined(DOne),    \* 0.05, 1
                     Defined(D(3, 30103000))}                                  \* 2000
StarMassValues   == {Undefined, Defined(DZero), Defined(Two)}                  \* 0, 2
LuminosityValues == {Undefined, Defined(DOne)}
StarTempValues   == {Undefined, Defined(D(3, 90308999))}                       \* 8000
StarRadiusValues == {Undefined, Defined(Two)}
DepthValues      == {Undefined, Defined(D(4, 30103000))}                       \* 20000

PhysicsInputs ==
  [orbitalPeriodDays : PeriodValues, semiMajorAxisAU : AxisValues,
   radiusEarth : RadiusValues, massEarth : MassValues,
   starTempK : StarTempValues, starRadiusSolar : StarRadiusValues,
   starMassSolar : StarMassValues, starLuminositySolar : LuminosityValues,
   transitDepthPPM : DepthValues, transitDurationHours : {Undefined}]

NoInput == CHOOSE i \in PhysicsInputs : \A f \in DOMAIN i : i[f] = Undefined

\* the arguments of the Kepler conversions: a period in days or an axis in AU, a star mass
KeplerValues == {DNeg(DOne), DZero, DNaN, D(0 - 200, 0), D(0 - 2, 69897000),  \* 1e-200, 0.05
                 D(0 - 1, 97772361), DOne, D(2, 56229286), D(4, 30103000),    \* 0.95, 365, 20000
                 D(200, 0)}                                                   \* 1e200
KeplerStarMasses == {DZero, D(0 - 1, 30103000), DOne, Two}                    \* 0, 0.2, 1, 2

\* the radii the mass-radius estimate is taken of: 0.3, 1, 1.5, 2, 4, 10
EstimateRadii == {D(0 - 1, 47712125), DOne, D(0, 17609126), Two, Four, D(1, 0)}

\* the catalog records mapped: pl_orbsmax of NaN, 0, 0.95, 1, 1.5, 1.67, 100
CatalogAxes == {DNaN, DZero, D(0 - 1, 97772361), DOne, D(0, 17609126), D(0, 22271647), D(2, 0)}
CatalogRecords ==
  [pl_orbsmax : CatalogAxes, st_teff : {DNaN, D(3, 76177754), D(3, 90308999)},
   st_rad : {DNaN, DOne}]

NoRecord == [pl_orbsmax |-> DNaN, st_teff |-> DNaN, st_rad |-> DNaN]

PhysicsArgs ==
  [op : {"calculate", "validatePhysicalPlausibility"}, input : PhysicsInputs,
   x : {DNaN}, starMass : {DNaN}, record : {NoRecord}]
  \cup [op : {"calculateSemiMajorAxis", "calculateOrbitalPeriod"}, input : {NoInput},
        x : KeplerValues, starMass : KeplerStarMasses, record : {NoRecord}]
  \cup [op : {"estimateMassFromRadius"}, input : {NoInput},
        x : EstimateRadii, starMass : {DNaN}, record : {NoRecord}]
  \cup [op : {"mapNASAToExoplanetData"}, input : {NoInput},
        x : {DNaN}, starMass : {DNaN}, record : CatalogRecords]

InitPhysics ==
  /\ fn = "none"
  /\ arg \in PhysicsArgs
  /\ ret = Undefined
  /\ OrchestratorIdle
  /\ ServiceIdle
  /\ CallersIdle
  /\ PageIdle

CallCalculate ==
  /\ fn = "none"
  /\ arg.op = "calculate"
  /\ fn' = "calculate"
  /\ ret' = calculate(arg.input)
  /\ UNCHANGED <<arg, componentVars, serviceVars, callerVars, pageVars>>

CallValidate ==
  /\ fn = "none"
  /\ arg.op = "validatePhysicalPlausibility"
  /\ fn' = "validatePhysicalPlausibility"
  /\ ret' = validatePhysicalPlausibility(arg.input)
  /\ UNCHANGED <<arg, componentVars, serviceVars, callerVars, pageVars>>

CallSemiMajorAxis ==
  /\ fn = "none"
  /\ arg.op = "calculateSemiMajorAxis"
  /\ fn' = "calculateSemiMajorAxis"
  /\ ret' = calculateSemiMajorAxis(arg.x, arg.starMass)
  /\ UNCHANGED <<arg, componentVars, serviceVars, callerVars, pageVars>>

CallOrbitalPeriod ==
  /\ fn = "none"
  /\ arg.op = "calculateOrbitalPeriod"
  /\ fn' = "calculateOrbitalPeriod"
  /\ ret' = calculateOrbitalPeriod(arg.x, arg.starMass)
  /\ UNCHANGED <<arg, componentVars, serviceVars, callerVars, pageVars>>

\* calculateOrbitalPeriod(calculateSemiMajorAxis(period, starMass), starMass)
CallOrbitalPeriodOfAxis ==
  /\ fn = "calculateSemiMajorAxis"
  /\ fn' = "calculateOrbitalPeriod(calculateSemiMajorAxis)"
  /\ ret' = calculateOrbitalPeriod(ret, arg.starMass)
  /\ UNCHANGED <<arg, componentVars, serviceVars, callerVars, pageVars>>

CallEstimateMass ==
  /\ fn = "none"
  /\ arg.op = "estimateMassFromRadius"
  /\ fn' = "estimateMassFromRadius"
  /\ ret' = estimateMassFromRadius(arg.x)
  /\ UNCHANGED <<arg, componentVars, serviceVars, callerVars, pageVars>>

CallMapNASA ==
  /\ fn = "none"
  /\ arg.op = "mapNASAToExoplanetData"
  /\ fn' = "mapNASAToExoplanetData"
  /\ ret' = mapNASAToExoplanetData(arg.record)
  /\ UNCHANGED <<arg, componentVars, serviceVars, callerVars, pageVars>>

NextPhysics ==
  \/ CallCalculate
  \/ CallValidate
  \/ CallSemiMajorAxis
  \/ CallOrbitalPeriod
  \/ CallOrbitalPeriodOfAxis
  \/ CallEstimateMass
  \/ CallMapNASA

SpecPhysics == InitPhysics /\ [][NextPhysics]_vars
-----------------------------------------------------------------------------
(* Claims about the physics calculator *)

\* the numbers of a PhysicsCalculationResult
ResultNumbers(r) ==
  {r.orbitalPeriodDays, r.semiMajorAxisAU, r.equilibriumTemperatureK, r.habitableZoneInnerAU,
   r.habitableZoneOuterAU, r.surfaceGravityMS2, r.escapeVelocityMS, r.densityGCM3,
   r.starLuminositySolar, r.starRadiusM}

\* C11: whenever a field of the result of calculate is NaN, the warnings list is
\* non-empty and isPhysicallyPlausible is false.
C11_NaNIsWarned ==
  (fn = "calculate" /\ DNaN \in ResultNumbers(ret))
    => (ret.warnings # <<>> /\ ~ret.isPhysicallyPlausible)

HasWarning(warnings, w) == \E i \in 1..Len(warnings) : warnings[i] = w

\* the mass calculate takes for the planet
MassUsed(input) ==
  IF input.massEarth.defined THEN input.massEarth.val
  ELSE estimateMassFromRadius(OrElse(input.radiusEarth, DOne))

\* C12: whenever the result of calculate has an orbital period outside [0.1, 10000]
\* days or a density outside [0.3, 14] g/cm3, or the mass estimated from the radius is
\* outside [0.1, 1000] Earth masses, the warnings list holds the warning of that rule
\* and isPhysicallyPlausible is false.
C12_BoundsOnResult ==
  fn = "calculate" =>
    /\ DLt(ret.orbitalPeriodDays, D(0 - 1, 0))
         => (HasWarning(ret.warnings, "Orbital period very short (< 0.1 days)")
             /\ ~ret.isPhysicallyPlausible)
    /\ DGt(ret.orbitalPeriodDays, D(4, 0))
         => (HasWarning(ret.warnings, "Orbital period very long (> 10000 days)")
             /\ ~ret.isPhysicallyPlausible)
    /\ DLt(ret.densityGCM3, D(0 - 1, 47712125))
         => (HasWarning(ret.warnings, "Density unusually low (< 0.3 g/cm3 - unlikely)")
             /\ ~ret.isPhysicallyPlausible)
    /\ DGt(ret.densityGCM3, D(1, 14612804))
         => (HasWarning(ret.warnings, "Density unusually high (> 14 g/cm3 - iron core planet)")
             /\ ~ret.isPhysicallyPlausible)
    /\ DLt(MassUsed(arg.input), D(0 - 1, 0))
         => (HasWarning(ret.warnings, "Planet mass very small (< 0.1 M_Earth)")
             /\ ~ret.isPhysicallyPlausible)
    /\ DGt(MassUsed(arg.input), D(3, 0))
         => (HasWarning(ret.warnings, "Planet mass very large (> 1000 M_Earth)")
             /\ ~ret.isPhysicallyPlausible)

\* C13: calculate never overwrites a provided input: a provided orbital period,
\* semi-major axis and star luminosity appear unchanged in the result, a provided mass
\* (and radius) is the one the planet properties are computed from, and a provided star
\* radius, temperature and mass are used in place of the defaults.
C13_InputsKept ==
  fn = "calculate" =>
    /\ arg.input.orbitalPeriodDays.defined
         => ret.orbitalPeriodDays = arg.input.orbitalPeriodDays.val
    /\ arg.input.semiMajorAxisAU.defined
         => ret.semiMajorAxisAU = arg.input.semiMajorAxisAU.val
    /\ arg.input.starLuminositySolar.defined
         => ret.starLuminositySolar = arg.input.starLuminositySolar.val
    /\ arg.input.massEarth.defined
         => LET radius == IF arg.input.radiusEarth.defined
                            THEN arg.input.radiusEarth.val ELSE DOne
            IN  /\ ret.densityGCM3 = calculateDensity(radius, arg.input.massEarth.val)
                /\ ret.surfaceGravityMS2
                     = calculateSurfaceGravity(radius, arg.input.massEarth.val)
    /\ arg.input.starRadiusSolar.defined
         => ret.starRadiusM = DMul(arg.input.starRadiusSolar.val, R_SUN)
    /\ (arg.input.starTempK.defined /\ arg.input.starRadiusSolar.defined
        /\ ~arg.input.starLuminositySolar.defined)
         => ret.starLuminositySolar
              = calculateStellarLuminosity(arg.input.starRadiusSolar.val,
                                           arg.input.starTempK.val)
    /\ (arg.input.starMassSolar.defined /\ arg.input.orbitalPeriodDays.defined
        /\ ~arg.input.semiMajorAxisAU.defined)
         => ret.semiMajorAxisAU
              = calculateSemiMajorAxis(arg.input.orbitalPeriodDays.val,
                                       arg.input.starMassSolar.val)

\* calculate has returned for an input that provides a period of 20000 days, an axis of
\* 100 AU, a luminosity, a mass of 2000, a star radius of 2 and a star temperature
C13_AllProvided ==
  /\ fn = "calculate"
  /\ arg.input.orbitalPeriodDays = Defined(D(4, 30103000))
  /\ arg.input.semiMajorAxisAU = Defined(D(2, 0))
  /\ arg.input.starLuminositySolar.defined
  /\ arg.input.massEarth = Defined(D(3, 30103000))
  /\ arg.input.starRadiusSolar.defined
  /\ arg.input.starTempK.defined
  /\ ret.orbitalPeriodDays = D(4, 30103000)
  /\ ret.semiMajorAxisAU = D(2, 0)

\* a and b are finite, of one sign, and their logarithms differ by at most tol units
\* of 10^-8: a relative difference of about 2.3e-8 * tol
LogClose(a, b, tol) ==
  /\ a.k = "fin" /\ b.k = "fin" /\ a.s = b.s
  /\ a.e - b.e \in {0 - 1, 0, 1}
  /\ AbsInt((a.e - b.e) * Decade + a.f - b.f) <= tol

\* Kepler's third law, a^3 = M * T^2 for a in AU, T in sidereal years of 365.256363
\* days and M in solar masses, to one part in a thousand
KeplerThirdLaw(a, T, M) ==
  LET year == D(2, 56259779)
  IN  LogClose(DMul(DMul(DMul(DMul(a, a), a), year), year), DMul(DMul(M, T), T), 43407)

\* C14: when exactly one of orbital period and semi-major axis is present in the input,
\* calculate derives the missing one from the present one by Kepler's third law with the
\* input's star mass (1 when absent), NaN when the present one or the star mass is not
\* positive, and never the 365-day or 1-AU default; (365 days, 1 AU) is returned only
\* when both are absent.
C14_MissingOneDerived ==
  fn = "calculate" =>
    LET period   == arg.input.orbitalPeriodDays
        axis     == arg.input.semiMajorAxisAU
        starMass == IF arg.input.starMassSolar.defined
                      THEN arg.input.starMassSolar.val ELSE DOne
    IN  /\ (period.defined /\ ~axis.defined)
             => IF DGt(period.val, DZero) /\ DGt(starMass, DZero)
                  THEN KeplerThirdLaw(ret.semiMajorAxisAU, period.val, starMass)
                  ELSE ret.semiMajorAxisAU = DNaN
        /\ (axis.defined /\ ~period.defined)
             => IF DGt(axis.val, DZero) /\ DGt(starMass, DZero)
                  THEN KeplerThirdLaw(axis.val, ret.orbitalPeriodDays, starMass)
                  ELSE ret.orbitalPeriodDays = DNaN
        /\ (~period.defined /\ ~axis.defined)
             => (ret.orbitalPeriodDays = D(2, 56229286) /\ ret.semiMajorAxisAU = DOne)
        /\ (ret.orbitalPeriodDays = D(2, 56229286) /\ ret.semiMajorAxisAU = DOne)
             => (period.defined <=> axis.defined)

\* calculate has returned a period above 100000 days, derived from an axis of 100 AU
\* and a star mass of 2 for an input without a period
C14_PeriodFromAxis ==
  /\ fn = "calculate"
  /\ ~arg.input.orbitalPeriodDays.defined
  /\ arg.input.semiMajorAxisAU = Defined(D(2, 0))
  /\ arg.input.starMassSolar = Defined(Two)
  /\ DGt(ret.orbitalPeriodDays, D(5, 0))
  /\ ret.orbitalPeriodDays.k = "fin"

-----------------------------------------------------------------------------
(* Claims about the plausibility validator *)

\* the warnings of the rules params violates
ViolatedRules(params) ==
  LET radius  == params.radiusEarth
      mass    == params.massEarth
      period  == params.orbitalPeriodDays
      depth   == params.transitDepthPPM
      density == IF radius.defined /\ mass.defined
                   THEN calculateDensity(radius.val, mass.val) ELSE DNaN
  IN  {w \in {"Planet radius very small (< 0.5 R_Earth)"} :
         radius.defined /\ DLt(radius.val, D(0 - 1, 69897000))}
      \cup {w \in {"Planet radius very large (> 10 R_Earth)"} :
         radius.defined /\ DGt(radius.val, D(1, 0))}
      \cup {w \in {"Planet mass very small (< 0.1 M_Earth)"} :
         mass.defined /\ DLt(mass.val, D(0 - 1, 0))}
      \cup {w \in {"Planet mass very large (> 1000 M_Earth)"} :
         mass.defined /\ DGt(mass.val, D(3, 0))}
      \cup {w \in {"Density unusually low (< 0.3 g/cm3 - unlikely)"} :
         DLt(density, D(0 - 1, 47712125))}
      \cup {w \in {"Density unusually high (> 14 g/cm3 - iron core planet)"} :
         DGt(density, D(1, 14612804))}
      \cup {w \in {"Orbital period very short (< 0.1 days)"} :
         period.defined /\ DLt(period.val, D(0 - 1, 0))}
      \cup {w \in {"Orbital period very long (> 10000 days)"} :
         period.defined /\ DGt(period.val, D(4, 0))}
      \cup {w \in {"Transit depth unusually large (> 1%)"} :
         depth.defined /\ DGt(depth.val, D(4, 0))}

\* C15: validatePhysicalPlausibility returns one warning for each rule the input
\* violates and none for a rule it satisfies; a radius of 0.3 yields the radius warning
\* and a radius of 1 with a mass of 1 yields no warning.
C15_EveryViolatedRule ==
  fn = "validatePhysicalPlausibility" =>
    /\ {ret[i] : i \in 1..Len(ret)} = ViolatedRules(arg.input)
    /\ Len(ret) = Cardinality(ViolatedRules(arg.input))
    /\ arg.input.radiusEarth = Defined(D(0 - 1, 47712125))
         => HasWarning(ret, "Planet radius very small (< 0.5 R_Earth)")
    /\ (arg.input.radiusEarth = Defined(DOne) /\ arg.input.massEarth = Defined(DOne)
        /\ ~arg.input.orbitalPeriodDays.defined /\ ~arg.input.transitDepthPPM.defined)
         => ret = <<>>

\* validatePhysicalPlausibility has returned the five warnings of an input that
\* violates the radius, mass, density, period and transit depth rules together
C15_FiveWarnings ==
  /\ fn = "validatePhysicalPlausibility"
  /\ arg.input.radiusEarth = Defined(D(0 - 1, 47712125))
  /\ arg.input.massEarth = Defined(D(3, 30103000))
  /\ Len(ret) = 5

-----------------------------------------------------------------------------
(* Claims about the Kepler conversions *)

\* C16: for every positive period and star mass,
\* calculateOrbitalPeriod(calculateSemiMajorAxis(period, starMass), starMass) equals
\* period with a relative error below 1e-6 (43 units of 10^-8 in the logarithm).
C16_KeplerRoundTrip ==
  (fn = "calculateOrbitalPeriod(calculateSemiMajorAxis)"
   /\ DGt(arg.x, DZero) /\ DGt(arg.starMass, DZero))
    => LogClose(ret, arg.x, 43)

PositiveFinite(x) == x.k = "fin" /\ x.s = 1

\* C17: calculateSemiMajorAxis returns NaN exactly when period <= 0 or star mass <= 0
\* and a positive finite value otherwise; calculateOrbitalPeriod does the same for
\* semi-major axis <= 0 or star mass <= 0.
C17_NaNExactlyWhenNonPositive ==
  fn \in {"calculateSemiMajorAxis", "calculateOrbitalPeriod"} =>
    IF DLe(arg.x, DZero) \/ DLe(arg.starMass, DZero)
      THEN ret = DNaN
      ELSE PositiveFinite(ret)

-----------------------------------------------------------------------------
(* Claims about the habitable zone and the mass-radius estimate *)

\* inner <= a <= outer for inner = 0.95 * sqrt(L) and outer = 1.67 * sqrt(L)
InZone(a, L) ==
  /\ DLe(DMul(D(0 - 1, 97772361), DSqrt(L)), a)
  /\ DLe(a, DMul(D(0, 22271647), DSqrt(L)))

\* C18: on every path that sets the in-habitable-zone flag, the physics calculator and
\* the catalog-record mapping, the flag is true exactly when inner <= a <= outer with
\* inner = 0.95 * sqrt(L) and outer = 1.67 * sqrt(L), L the star's luminosity and a the
\* semi-major axis, the boundary values included.
C18_InZoneIffBetween ==
  /\ fn = "calculate"
       => (ret.inHabitableZone <=> InZone(ret.semiMajorAxisAU, ret.starLuminositySolar))
  /\ fn = "mapNASAToExoplanetData"
       => (ret.inHabitableZone
             <=> InZone(ret.semiMajorAxisAU,
                        calculateStellarLuminosity(ret.starRadiusSolar, ret.starTempK)))

\* C19: the mass-radius estimate has no discontinuity at 1.5 Earth radii: the value of
\* the branch of R < 1.5 at R = 1.5 and the estimate at 1.5, which the branch of
\* 1.5 <= R < 4 gives, differ by less than 1e-6 (a difference below 1e-6 between values
\* above 1 is a relative difference below 1e-6, 43 units of 10^-8 in the logarithm).
C19_ContinuousAtBreakpoint ==
  (fn = "estimateMassFromRadius" /\ arg.x = D(0, 17609126))
    => /\ ret = SuperEarthMass(arg.x)
       /\ LogClose(TerrestrialMass(arg.x), ret, 43)

-----------------------------------------------------------------------------
(* The heuristic scorer's component scores applied to every light curve *)

\* the longest light curve scored
ScoreLen == 3

\* flux values -3, 0, 1 and 2, at times 1, 2, ..., with no error column or errors of 0.01
ScoreFluxes == {Num(0 - 3), Num(0), Num(1), Num(2)}
ScoreCurves ==
  UNION {[time : {[i \in 1..n |-> Num(i)]}, flux : [1..n -> ScoreFluxes],
          error : {Undefined, Defined([i \in 1..n |-> Fin(1)])}] : n \in 1..ScoreLen}

InitScore ==
  /\ fn = "none"
  /\ arg \in ScoreCurves
  /\ ret = NaN
  /\ OrchestratorIdle
  /\ ServiceIdle
  /\ CallersIdle
  /\ PageIdle

CallFluxVariations ==
  /\ fn = "none"
  /\ fn' = "analyzeFluxVariations"
  /\ ret' = analyzeFluxVariations(arg.flux)
  /\ UNCHANGED <<arg, componentVars, serviceVars, callerVars, pageVars>>

CallPeriodicity ==
  /\ fn = "none"
  /\ fn' = "analyzePeriodicity"
  /\ ret' = analyzePeriodicity(arg.time, arg.flux)
  /\ UNCHANGED <<arg, componentVars, serviceVars, callerVars, pageVars>>

CallDataQuality ==
  /\ fn = "none"
  /\ fn' = "analyzeDataQuality"
  /\ ret' = analyzeDataQuality(arg)
  /\ UNCHANGED <<arg, componentVars, serviceVars, callerVars, pageVars>>

\* the feature vector of predict (line 212)
CallPreprocess ==
  /\ fn = "none"
  /\ fn' = "preprocessLightCurve"
  /\ ret' = preprocessLightCurve(arg)
  /\ UNCHANGED <<arg, componentVars, serviceVars, callerVars, pageVars>>

\* the dataset characteristics of predict (lines 236-243)
CallCharacteristics ==
  /\ fn = "none"
  /\ fn' = "characteristics"
  /\ ret' = DatasetCharacteristics(arg)
  /\ UNCHANGED <<arg, componentVars, serviceVars, callerVars, pageVars>>

NextScore ==
  \/ CallFluxVariations
  \/ CallPeriodicity
  \/ CallDataQuality
  \/ CallPreprocess
  \/ CallCharacteristics

SpecScore == InitScore /\ [][NextScore]_vars

\* C20: for every non-empty light curve each of the three component scores of the
\* heuristic scorer (flux variation, periodicity, data quality) lies in [0, 1],
\* curves with negative flux values included.
C20_ComponentScoresInRange ==
  fn \in {"analyzeFluxVariations", "analyzePeriodicity", "analyzeDataQuality"}
    => InUnitInterval(ret)

\* C21: every statistic extracted from a light curve is a finite number: no NaN or
\* infinity appears in the feature vector or in the dataset characteristics of the
\* prediction, for a single-sample curve and for a curve whose flux mean is 0 too.
C21_StatisticsFinite ==
  /\ fn = "preprocessLightCurve"
       => (~ret.threw /\ \A i \in 1..Len(ret.features) : IsFinite(ret.features[i]))
  /\ fn = "characteristics"
       => \A f \in {"timeRange", "fluxMean", "fluxMin", "fluxMax", "fluxStdDev"} :
            IsFinite(ret[f])

-----------------------------------------------------------------------------
(* Further claims about the parser *)

\* the light curve holds the placeholder series, not measurements of the input
IsPlaceholder(lc) == lc.time = generateMockTimeSeries /\ lc.flux = generateMockFluxSeries

\* the label of placeholder data: the target id 'mock_target'
MockLabelled(lc) == lc.metadata.targetId = Defined(<<"m","o","c","k","_","t","a","r","g","e","t">>)

\* C22: whenever a parser returns placeholder data instead of parsed measurements (any
\* FITS input, and the zero-parsed-rows CSV fallback), the returned light curve is
\* non-empty and carries a label in its metadata, the target id 'mock_target', that no
\* light curve parsed from real rows carries.
C22_PlaceholderLabelled ==
  (fn \in {"parseCSVData", "parseTextData", "parseFITSData"} /\ ~ret.threw) =>
    /\ fn = "parseFITSData" => IsPlaceholder(ret.lc)
    /\ IsPlaceholder(ret.lc) => (Len(ret.lc.time) > 0 /\ MockLabelled(ret.lc))
    /\ ~IsPlaceholder(ret.lc)
         => /\ ~MockLabelled(ret.lc)
            /\ ret.lc.metadata.targetId.defined
                 => \A i \in 1..Len(ret.lc.metadata.targetId.val) :
                      IsDigit(ret.lc.metadata.targetId.val[i])

\* parseCSVData has returned the labelled placeholder for a CSV without a parseable row
C22_FallbackReturned ==
  /\ fn = "parseCSVData"
  /\ ~ret.threw
  /\ IsPlaceholder(ret.lc)
  /\ MockLabelled(ret.lc)

-----------------------------------------------------------------------------
(* Further claims about the upload orchestrator *)

\* C23: format selection routes an input to CSV parsing whenever the file name ends in
\* .csv or the first content line is comma-delimited with at least 2 tokens, whatever
\* the file extension; only inputs that satisfy neither are parsed as white-space text.
C23_RoutedByNameOrContent ==
  Parsed =>
    IF \/ EndsWith(ToLower(req.file.name), <<".","c","s","v">>)
       \/ Len(HeadersOf(req.file.content)) >= 2
      THEN req.parsed = parseCSVData(req.file.content)
      ELSE ~EndsWith(ToLower(req.file.name), <<".","f","i","t","s">>)
             => req.parsed = parseTextData(req.file.content)

-----------------------------------------------------------------------------
(* Claims about the columns and rows of a CSV *)

\* the header has at most WideColumns tokens: parseCSVData stays on the strict path
StrictPath(content) == Len(HeadersOf(content)) <= WideColumns

\* C24: on the strict CSV path the time column is the leftmost header token that
\* contains a time synonym and the flux column the leftmost that contains a flux
\* synonym; when no time or no flux token matches, columns 0 and 1 are used as time
\* and flux only if the header has exactly two columns, and the input is rejected
\* otherwise.
C24_LeftmostOrTwoColumns ==
  (fn = "parseCSVData" /\ StrictPath(arg)) =>
    LET headers   == HeadersOf(arg)
        timeIndex == FindIndex(headers, CSVTimeHeader)
        fluxIndex == FindIndex(headers, CSVFluxHeader)
    IN  IF timeIndex >= 0 /\ fluxIndex >= 0
          THEN ret = parseCSVDataWithIndices(arg, timeIndex, fluxIndex,
                                             FindIndex(headers, CSVErrorHeader))
          ELSE IF Len(headers) = 2
            THEN ret = parseCSVDataWithIndices(arg, 0, 1, 2)
            ELSE ret.threw

\* a line the parser skips: empty, or a comment
IsSkippedLine(line) ==
  Trim(line) = <<>> \/ StartsWith(Trim(line), <<"#">>) \/ StartsWith(Trim(line), <<"%">>)

\* the lines of an input from its first line that is neither empty nor a comment
RECURSIVE FromHeader(_)
FromHeader(lines) ==
  IF lines = <<>> THEN <<>>
  ELSE IF IsSkippedLine(Head(lines)) THEN FromHeader(Tail(lines))
  ELSE lines

\* the fields of a row
FieldsOf(line) == TrimAll(Split(Trim(line), ","))

\* the lines after the header that qualify as samples for the given columns
QualifyingRows(lines, timeIndex, fluxIndex) ==
  LET Qualifies(line) ==
        /\ ~IsSkippedLine(line)
        /\ Len(FieldsOf(line)) >= Max2(timeIndex, fluxIndex) + 1
        /\ ~isNaN(parseFloat(FieldsOf(line)[timeIndex + 1]))
        /\ ~isNaN(parseFloat(FieldsOf(line)[fluxIndex + 1]))
  IN  SelectSeq(Tail(lines), Qualifies)

\* the time and flux columns the parser selects for a header, on either path
SelectedColumns(headers) ==
  IF Len(headers) > WideColumns
    THEN [time |-> IF FindIndex(headers, KOITimeHeader) = 0 - 1 THEN 0 ELSE FindIndex(headers, KOITimeHeader),
          flux |-> IF FindIndex(headers, KOIFluxHeader) = 0 - 1 THEN 1 ELSE FindIndex(headers, KOIFluxHeader)]
    ELSE IF FindIndex(headers, CSVTimeHeader) = 0 - 1 \/ FindIndex(headers, CSVFluxHeader) = 0 - 1
      THEN [time |-> 0, flux |-> 1]
      ELSE [time |-> FindIndex(headers, CSVTimeHeader),
            flux |-> FindIndex(headers, CSVFluxHeader)]

\* C25: for CSV input on either path a comment or empty line is never taken as the
\* header, so the result is that of the input from its first line that is neither;
\* and the returned samples are exactly, in input order, the lines after the header
\* that are non-empty, are no comment, have at least max(timeIndex, fluxIndex) + 1
\* fields and whose time and flux fields parse as numbers (when no line qualifies
\* the result is the placeholder of C2, or empty on the wide path).
C25_ExactlyQualifyingRows ==
  fn = "parseCSVData" =>
    \E lines \in { FromHeader(Split(Trim(arg), "\n")) } :
      lines # <<>> =>
        /\ ret = parseCSVData(Join(lines, NL))
        /\ \E cols \in { SelectedColumns(HeadersOf(Join(lines, NL))) } :
           \E rows \in { QualifyingRows(lines, cols.time, cols.flux) } :
             (~ret.threw /\ rows # <<>>) =>
               /\ ret.lc.time = [i \in 1..Len(rows) |-> parseFloat(FieldsOf(rows[i])[cols.time + 1])]
               /\ ret.lc.flux = [i \in 1..Len(rows) |-> parseFloat(FieldsOf(rows[i])[cols.flux + 1])]

\* the mission a header names, by the identifiers in its joined lower-cased tokens
MissionOf(headers) ==
  LET headerStr == ToLower(Join(headers, <<" ">>))
  IN
    IF Includes(headerStr, <<"k","e","p","l","e","r">>) \/ Includes(headerStr, <<"k","i","c">>) THEN "kepler"
    ELSE IF Includes(headerStr, <<"k","2">>) \/ Includes(headerStr, <<"e","p","i","c">>) THEN "k2"
    ELSE IF Includes(headerStr, <<"t","e","s","s">>) \/ Includes(headerStr, <<"t","i","c">>) THEN "tess"
    ELSE "unknown"

\* C26: for every CSV input metadata.source is determined by the header tokens alone:
\* 'kepler' when the joined lower-cased header contains 'kepler' or 'kic', else 'k2'
\* when it contains 'k2' or 'epic', else 'tess' when it contains 'tess' or 'tic', and
\* 'unknown' otherwise, on the strict path, on the wide-table path and when the
\* result is the synthetic fallback.
C26_SourceFromHeader ==
  (fn = "parseCSVData" /\ ~ret.threw) =>
    ret.lc.metadata.source = MissionOf(HeadersOf(arg))
-----------------------------------------------------------------------------
(* The life cycle of the scorer: loadModel, predict and dispose in any order *)

\* the direct calls of loadModel the model follows
MaxLoads == 2

\* the call whose predict is followed
LifeCallers == {1}

\* mlModelService.loadModel() called on its own
CallLoadModel ==
  /\ loadCount < MaxLoads
  /\ \E p \in 0..(loadCount + 1) : loadModel(p)
  /\ UNCHANGED <<isModelLoaded, model>>
  /\ UNCHANGED <<harnessVars, pageVars, componentVars, callerVars>>

\* mlModelService.dispose()
Dispose ==
  /\ isModelLoaded' = FALSE
  /\ loadingPromise' = 0
  /\ UNCHANGED <<model, pendingLoads, loadCount>>
  /\ UNCHANGED <<harnessVars, pageVars, componentVars, callerVars>>

NextLife ==
  \/ CallLoadModel
  \/ \E c \in LifeCallers : ValidateWithML(c)
  \/ LoadModelSucceeds
  \/ LoadModelFails
  \/ \E c \in LifeCallers : CallerAfterLoad(c)
  \/ \E c \in LifeCallers : CallerTfImported(c)
  \/ \E c \in LifeCallers : CallerPredictionData(c)
  \/ \E c \in LifeCallers : CallerInferenceThrows(c)
  \/ Dispose

SpecLife == Init /\ [][NextLife]_vars
-----------------------------------------------------------------------------
(* Claims about the life cycle of the scorer *)

\* C27: for any interleaving of loadModel, predict and dispose there are never two
\* _loadModel executions in flight; and a load that was in flight when dispose was
\* called (it is no longer the one loadingPromise names) does not mark the service
\* loaded when it completes.
C27_OneLoadInFlight ==
  /\ [](Cardinality(pendingLoads) <= 1)
  /\ [][\A p \in pendingLoads \ pendingLoads' :
          (p # loadingPromise /\ ~isModelLoaded) => ~isModelLoaded']_vars
-----------------------------------------------------------------------------
(* Claims about the columns selected for a CSV header *)

\* the error column the parser selects for a header, on either path: -1 for none
SelectedErrorColumn(headers) ==
  IF Len(headers) > WideColumns THEN FindIndex(headers, KOIErrorHeader)
  ELSE IF FindIndex(headers, CSVTimeHeader) = 0 - 1 \/ FindIndex(headers, CSVFluxHeader) = 0 - 1
    THEN 2
  ELSE FindIndex(headers, CSVErrorHeader)

\* C28: for every CSV header, on the strict path and on the wide-table path, the
\* columns selected for time, flux and error are pairwise distinct: no column is read
\* both as time and as flux, and none both as flux and as error.
C28_ColumnsDistinct ==
  (fn = "parseCSVData" /\ ~ret.threw) =>
    \E cols \in { SelectedColumns(HeadersOf(arg)) } :
    \E errorIndex \in { SelectedErrorColumn(HeadersOf(arg)) } :
      /\ cols.time # cols.flux
      /\ cols.time # errorIndex
      /\ cols.flux # errorIndex
-----------------------------------------------------------------------------
(* Claims about the prediction record *)

\* the flags and the planet type of a prediction agree with its probability
ConsistentPrediction(r) ==
  /\ r.hasWater => r.isHabitable
  /\ r.isHabitable => r.hasAtmosphere
  /\ r.isHabitable <=> NGt(r.probability, Fin(70))
  /\ r.planetType \in {"Super Earth", "Terrestrial"} <=> r.isHabitable
  /\ r.planetType = "Mini-Neptune" <=>
       (NGt(r.probability, Fin(50)) /\ ~NGt(r.probability, Fin(70)))
  /\ r.planetType = "Gas Giant" <=> ~NGt(r.probability, Fin(50))

\* C29: every prediction returned by predict, on the trained-model path, the
\* simulation path and the mock path, is consistent with one probability p: hasWater
\* implies isHabitable, isHabitable implies hasAtmosphere, and planetType is 'Super
\* Earth' or 'Terrestrial' exactly when isHabitable (p > 0.7), 'Mini-Neptune' exactly
\* when 0.5 < p <= 0.7 and 'Gas Giant' otherwise.
C29_PredictionConsistent ==
  \A c \in Callers :
    calls[c].pc = "done" =>
      /\ calls[c].path \in {"model", "simulation", "mock"}
      /\ ConsistentPrediction(calls[c].result.val)

\* one call returned from the trained model with an atmosphere and not habitable, the
\* other from the mock path with water
C29_ModelAndMockReturned ==
  /\ calls[1].pc = "done" /\ calls[1].path = "model"
  /\ calls[1].result.val.planetType = "Mini-Neptune"
  /\ calls[1].result.val.hasAtmosphere
  /\ calls[2].pc = "done" /\ calls[2].path = "mock"
  /\ calls[2].result.val.hasWater
-----------------------------------------------------------------------------
(* pages/MLAnalysis: the history of analyses *)

\* the analyses the model follows
MaxAnalyses == 6

\* the predictions the upload component hands over
PagePredictions == { getMockPrediction(Thrown.lc, random) : random \in {Fin(0), Fin(99)} }

\* Array.prototype.slice(0, n)
SliceTo(xs, n) == SubSeq(xs, 1, Min2(n, Len(xs)))

\* handleAnalysisComplete: the two states of the page it sets; the planet data it
\* derives goes to the context and is not followed
handleAnalysisComplete(prediction) ==
  /\ currentPrediction' = Defined(prediction)
  /\ analysisHistory' = <<prediction>> \o SliceTo(analysisHistory, 4)

\* startAnalysis has a prediction: setModelPrediction, then onAnalysisComplete
AnalysisCompleted ==
  /\ Len(completed) < MaxAnalyses
  /\ \E prediction \in PagePredictions :
       /\ modelPrediction' = Defined(prediction)
       /\ completed' = Append(completed, prediction)
       /\ handleAnalysisComplete(prediction)
  /\ UNCHANGED <<uploadStatus, uploadProgress, analysisProgress, uploadedFiles, error,
                 uploadInterval, analysisInterval, pc, req, published, stages, startCount,
                 predictCount, uploads>>
  /\ UNCHANGED <<harnessVars, callerVars, serviceVars>>

\* a click on the results card: onAnalysisComplete with the prediction on display
CardClicked ==
  /\ modelPrediction.defined
  /\ handleAnalysisComplete(modelPrediction.val)
  /\ UNCHANGED <<completed, componentVars, harnessVars, callerVars, serviceVars>>

NextPage == AnalysisCompleted \/ CardClicked

SpecPage == Init /\ [][NextPage]_vars
-----------------------------------------------------------------------------
(* Claims about the history of analyses *)

\* the last n entries of xs, the latest first
RECURSIVE LatestFirst(_, _)
LatestFirst(xs, n) ==
  IF n = 0 \/ xs = <<>> THEN <<>>
  ELSE <<xs[Len(xs)]>> \o LatestFirst(SubSeq(xs, 1, Len(xs) - 1), n - 1)

\* C30: after any sequence of completed analyses analysisHistory holds at most 5
\* predictions, the most recent first, and is exactly the k most recently completed
\* predictions with k = min(5, number of completed analyses); its head is
\* currentPrediction.
C30_HistoryIsLatestFive ==
  /\ Len(analysisHistory) <= 5
  /\ analysisHistory = LatestFirst(completed, 5)
  /\ analysisHistory # <<>> => currentPrediction = Defined(analysisHistory[1])

====
